---- MODULE Spec2Model ----
\* Verification model of the hydrogen repository: the dev-server inspector proxy
\* (workerd-inspector-proxy.ts), the mini-oxygen request handler, the customer
\* account client (customer.ts) and the customer-account push command (push.ts).
EXTENDS FiniteSets, Integers, Naturals, Sequences, TLC

\* ------------------------------------------------------------------ bounds
\* Number of external events the inspector proxy handles in one run: debugger
\* connections, inspector messages, debugger messages and inspector sockets
\* handed to the proxy (a socket's 'close' is not counted, it follows from a
\* connection).
MaxEvents == 6
\* Longest request pathname the mini-oxygen handler is given, in path tokens.
MaxPathLen == 4
\* Number of times `customer-account push` is run, one after the other.
MaxPushes == 2
\* Longest list of recommended, and of best-selling, products the API returns.
MaxProducts == 2
\* Customer account clients created, and isLoggedIn calls made on them.
MaxClients == 2
MaxCalls == 3
\* Longest commit message of a deployment, in words and line breaks.
MaxMessageLen == 3
\* Longest request url, in pieces.
MaxUrlLen == 3

VARIABLES
  \* ---- createInspectorProxy (workerd-inspector-proxy.ts)
  clients,              \* wsServer.clients: sockets whose 'close' has not been emitted
  readyState,           \* per debugger socket: "none" | "open" | "closing" | "closed"
  closeCode,            \* per debugger socket: code of the ws.close() the proxy called, 0 if none
  debuggerWs,           \* let debuggerWs
  msgListeners,         \* debugger sockets carrying the sendMessageToInspector listener
  closeListeners,       \* debugger sockets carrying the 'close' listener of the accept branch
  isDevToolsInBrowser,  \* let isDevToolsInBrowser
  messageBuffer,        \* let messageBuffer
  inspectorWs,          \* let inspectorWs
  inspectorListeners,   \* inspector sockets carrying the sendMessageToDebugger listener
  wire,                 \* every ws.send() the proxy made, in order
  flushed,              \* history: ids of the events messageBuffer.forEach has visited
  nextConn,             \* number of debugger connections that arrived so far
  nextInspector,        \* number of inspector sockets created so far
  nMsgs,                \* number of inspector messages that arrived so far
  nCmds,                \* number of debugger messages that arrived so far
  \* ---- miniOxygenHandler (workerd.ts)
  hPc,                  \* where the handler is: "idle" | "debugNetwork" | "assets" | "hydrogen" | "done"
  hRequest,             \* the request being handled
  hCalls,               \* fetch calls made on the service bindings, in order
  hAssetsStatus,        \* status of the assets response, 0 before there is one
  hWaitUntil,           \* promises handed to context.waitUntil (logRequest fetches)
  hReturned,            \* the response the handler returned
  \* ---- createCustomerAccountClient (customer.ts)
  session,              \* session.get(CUSTOMER_ACCOUNT_SESSION_KEY)
  cUrl,                 \* requestUrl.searchParams: code and state
  cPc,                  \* "idle" | "refresh" | "api" | "token" | "exchange" | "done"
  cOp,                  \* the client method that was called
  cResult,              \* how the call ended: returned or thrown, and what
  cFetches,             \* HTTP requests the call made, in order
  cChecked,             \* checkExpires: "no" (not called) | "pending" | "returned" | "threw"
  cSession0,            \* history: the session when the call started
  cResponse,            \* the last HTTP response the call received
  \* ---- runCustomerAccountPush (push.ts)
  localConfig,          \* .shopify/project.json: storefront id and customerAccountConfig
  pPc,                  \* "idle" | "getStorefrontId" | "try" | "replace" | "setConfig" | "done"
  pInput,               \* the arguments of the run
  pStorefrontId,        \* const storefrontId
  pRemoteCall,          \* the argument of replaceCustomerApplicationUrls, once called
  pReplaced,            \* what replaceCustomerApplicationUrls returned, once it has
  pResult,              \* how the run ended
  pConfig0,             \* history: customerAccountConfig when the run started
  pLastPushed,          \* history: the URLs stored by the latest run that succeeded
  nPushes,              \* runs started so far
  \* ---- worker entry, export default {fetch} (demo-store server.ts)
  wPc,                  \* "idle" | "setup" | "handle" | "redirect" | "done"
  wRequest,             \* url of the request
  wSecret,              \* env.SESSION_SECRET
  wHandled,             \* the response of handleRequest, once there is one
  wRedirected,          \* the result of maybeRedirect, once there is one
  wThrew,               \* history: the step of the try block that threw, or "none"
  wResult,              \* how fetch ended
  \* ---- storefront data loaders (app/data/index.ts)
  dPc,                  \* "idle" | "fetch" | "done"
  dOp,                  \* the loader that was called
  dArg,                 \* its handle or productId
  dApi,                 \* history: what the Storefront API answered
  dResult,              \* how the loader ended
  \* ---- customer account clients under concurrent calls (customer.ts, auth.helpers)
  kTableOf,             \* per client: the `locks` object it created, 0 before it exists
  kSession,             \* per client: "none" | "unset" | "valid" | "expired" tokens
  kLock,                \* per lock table: locks.refresh, 0 when absent
  kCalls,               \* per isLoggedIn call: client, lock table given, position, refresh awaited
  kRefresh,             \* per refresh request: client and "none" | "inflight" | "resolved" | "rejected"
  \* ---- CLI commands: list (formatDeployment), build (runViteBuild), init (runInit)
  fDeployment,          \* the deployment last given to formatDeployment
  fOut,                 \* what formatDeployment returned for it
  bOptions,             \* the options of the runViteBuild call
  bStep,                \* position in the awaited steps of runViteBuild, 0 before a call
  bTrace,               \* history: starts and ends of the awaited steps, in order
  bResult,              \* "idle" | "running" | "returned" | "thrown"
  iOptions,             \* runInit: options.force and the language chosen
  iDir0,                \* history: what projectDir was when runInit was called
  iDir,                 \* projectDir: "absent" | "file" | "empty" | "nonempty" | "created"
  iAnswer,              \* deleteFiles as answered, "none" when the prompt was not shown
  iPc,                  \* the await runInit is at, or "idle" | "returned" | "thrown"
  iOut,                 \* what runInit rendered, in order
  iError,               \* the error runInit threw, "none" otherwise
  \* ---- createInspectorProxy: the HTTP server
  sessionId,            \* const sessionId = crypto.randomUUID()
  httpUrl,              \* req.url of the request handled last
  httpRes               \* what its handler did with res

proxyVars == <<clients, readyState, closeCode, debuggerWs, msgListeners,
               closeListeners, isDevToolsInBrowser, messageBuffer, inspectorWs,
               inspectorListeners, wire, flushed, nextConn, nextInspector,
               nMsgs, nCmds>>

handlerVars == <<hPc, hRequest, hCalls, hAssetsStatus, hWaitUntil, hReturned>>

customerVars == <<session, cUrl, cPc, cOp, cResult, cFetches, cChecked,
                  cSession0, cResponse>>

pushVars == <<localConfig, pPc, pInput, pStorefrontId, pRemoteCall, pReplaced,
              pResult, pConfig0, pLastPushed, nPushes>>

workerVars == <<wPc, wRequest, wSecret, wHandled, wRedirected, wThrew, wResult>>

\* The components added to the dev-server and CLI ones.
dataVars == <<dPc, dOp, dArg, dApi, dResult>>

locksVars == <<kTableOf, kSession, kLock, kCalls, kRefresh>>

initVars == <<iOptions, iDir0, iDir, iAnswer, iPc, iOut, iError>>

cliVars == <<fDeployment, fOut, bOptions, bStep, bTrace, bResult, initVars>>

httpVars == <<sessionId, httpUrl, httpRes>>

appVars == <<workerVars, dataVars, locksVars, cliVars, httpVars>>

vars == <<proxyVars, handlerVars, customerVars, pushVars, appVars>>

\* What the handlers of one component leave alone: the other components.
toolVars == <<proxyVars, handlerVars, customerVars, pushVars>>

\* ------------------------------------------------------------ inspector proxy
\* `undefined` for debuggerWs / inspectorWs.
NoWs == 0

ConnIds == 1..MaxEvents
InspectorIds == 1..MaxEvents

\* Events handled so far; every handler but 'close' is guarded by the budget.
Events == nextConn + nextInspector + nMsgs + nCmds

\* user-agent header values of the upgrade request; "" is a missing header.
UserAgents == {"Mozilla/5.0 Chrome", "mozilla", "node-vscode", ""}

\* /mozilla/i.test(req.headers['user-agent'] ?? '')
IsMozilla(ua) == ua \in {"Mozilla/5.0 Chrome", "mozilla"}

\* The rewritten source map URL, `http://localhost:${port}/__index.js.map`.
ProxySourceMapURL == "http://localhost:port/__index.js.map"

\* Payloads the workerd inspector emits (event.data once parsed).
InspectorData ==
  { [method |-> "Debugger.scriptParsed", sourceMapURL |-> "index.js.map"],
    [method |-> "Debugger.scriptParsed", sourceMapURL |-> "other.js.map"],
    [method |-> "Runtime.consoleAPICalled", sourceMapURL |-> "index.js.map"] }

\* {id: 100_000_000, method: 'Debugger.disable'}
DebuggerDisable == [id |-> 100000000, method |-> "Debugger.disable", sourceMapURL |-> ""]

\* The Runtime.consoleAPICalled warning of onInspectorConnection.
ReloadWarning == [id |-> 0, method |-> "Runtime.consoleAPICalled:warning", sourceMapURL |-> ""]

\* A command of the debugger, forwarded verbatim.
DebuggerCommand(n) == [id |-> n, method |-> "Debugger.command", sourceMapURL |-> ""]

\* One ws.send(): the socket kind, the socket, the payload, and whether the
\* socket was OPEN. send() writes a frame only on an OPEN socket; on a CLOSING
\* or CLOSED one the data is discarded, and as the proxy passes no callback
\* nothing reports it. The state of inspector sockets is not tracked: sends to
\* them are recorded as written.
Sent(kind, ws, data, open) ==
  [to |-> kind, ws |-> ws, data |-> data, written |-> open]

\* The interception at the top of sendMessageToDebugger: the event that is then
\* sent or buffered.
Intercept(event, browser) ==
  IF browser /\ event.method = "Debugger.scriptParsed"
             /\ event.sourceMapURL = "index.js.map"
  THEN [event EXCEPT !.sourceMapURL = ProxySourceMapURL]
  ELSE event

\* sendMessageToDebugger(event) as a function of the state it reads and writes:
\* st = [dbg, open, browser, buf, wire], open being whether st.dbg is OPEN.
SendMessageToDebugger(st, event) ==
  LET ev == Intercept(event, st.browser) IN
  IF st.dbg # NoWs
  THEN [st EXCEPT !.wire = Append(@, Sent("debugger", st.dbg, ev, st.open))]
  ELSE [st EXCEPT !.buf = Append(@, ev)]

\* messageBuffer.forEach(sendMessageToDebugger), over the events still to visit.
RECURSIVE FlushBuffer(_, _)
FlushBuffer(st, events) ==
  IF events = <<>> THEN st
  ELSE FlushBuffer(SendMessageToDebugger(st, Head(events)), Tail(events))

ProxyInit ==
  /\ clients = {}
  /\ readyState = [c \in ConnIds |-> "none"]
  /\ closeCode = [c \in ConnIds |-> 0]
  /\ debuggerWs = NoWs
  /\ msgListeners = {}
  /\ closeListeners = {}
  /\ isDevToolsInBrowser = FALSE
  /\ messageBuffer = <<>>
  /\ wire = <<>>
  /\ flushed = <<>>
  /\ nextConn = 0
  /\ nMsgs = 0
  /\ nCmds = 0
  \* inspectorConnection?.ws; `if (inspectorWs) onInspectorConnection()` then
  \* only attaches the listener, no debugger being connected yet.
  /\ \E given \in BOOLEAN :
       /\ inspectorWs = IF given THEN 1 ELSE NoWs
       /\ inspectorListeners = IF given THEN {1} ELSE {}
       /\ nextInspector = IF given THEN 1 ELSE 0

\* wsServer.on('connection'), the branch that refuses the socket.
RejectConnection(ws) ==
  /\ readyState' = [readyState EXCEPT ![ws] = "closing"]
  /\ closeCode' = [closeCode EXCEPT ![ws] = 1013]
  /\ UNCHANGED <<debuggerWs, msgListeners, closeListeners, isDevToolsInBrowser,
                 messageBuffer, wire, flushed>>

\* Mutant of AcceptConnection: Debugger.disable is sent after the buffer has
\* been flushed.
AcceptConnectionDisableLast(ws, ua) ==
  LET st == FlushBuffer([dbg |-> ws, open |-> TRUE, browser |-> IsMozilla(ua),
                         buf |-> <<>>, wire |-> wire], messageBuffer)
  IN
  /\ readyState' = [readyState EXCEPT ![ws] = "open"]
  /\ debuggerWs' = ws
  /\ isDevToolsInBrowser' = IsMozilla(ua)
  /\ msgListeners' = (msgListeners \ {debuggerWs}) \cup {ws}
  /\ closeListeners' = closeListeners \cup {ws}
  /\ wire' = IF inspectorWs # NoWs
             THEN Append(st.wire, Sent("inspector", inspectorWs, DebuggerDisable, TRUE))
             ELSE st.wire
  /\ flushed' = flushed \o [i \in 1..Len(messageBuffer) |-> messageBuffer[i].id]
  /\ messageBuffer' = <<>>
  /\ UNCHANGED closeCode

\* wsServer.on('connection'), the branch that attaches the socket.
AcceptConnection(ws, ua) ==
  LET disabled == IF inspectorWs # NoWs
                  THEN Append(wire, Sent("inspector", inspectorWs, DebuggerDisable, TRUE))
                  ELSE wire
      st == FlushBuffer([dbg |-> ws, open |-> TRUE, browser |-> IsMozilla(ua),
                         buf |-> <<>>, wire |-> disabled], messageBuffer)
  IN
  /\ readyState' = [readyState EXCEPT ![ws] = "open"]
  /\ debuggerWs' = ws
  /\ isDevToolsInBrowser' = IsMozilla(ua)
  /\ msgListeners' = (msgListeners \ {debuggerWs}) \cup {ws}
  /\ closeListeners' = closeListeners \cup {ws}
  /\ wire' = st.wire
  /\ flushed' = flushed \o [i \in 1..Len(messageBuffer) |-> messageBuffer[i].id]
  /\ messageBuffer' = <<>>
  /\ UNCHANGED closeCode

\* Mutant of OnConnection: the size check is missing, every socket is attached.
OnConnectionUnlimited(ua) ==
  /\ Events < MaxEvents
  /\ LET ws == nextConn + 1 IN
       /\ nextConn' = ws
       /\ clients' = clients \cup {ws}
       /\ AcceptConnection(ws, ua)
  /\ UNCHANGED <<inspectorWs, inspectorListeners, nextInspector, nMsgs, nCmds>>
  /\ UNCHANGED <<handlerVars, customerVars, pushVars, appVars>>

\* A WebSocket handshake completes: the server adds the socket to its client
\* set and emits 'connection'.
OnConnection(ua) ==
  /\ Events < MaxEvents
  /\ LET ws == nextConn + 1 IN
       /\ nextConn' = ws
       /\ clients' = clients \cup {ws}
       /\ IF Cardinality(clients') > 1
          THEN RejectConnection(ws)
          ELSE AcceptConnection(ws, ua)
  /\ UNCHANGED <<inspectorWs, inspectorListeners, nextInspector, nMsgs, nCmds>>
  /\ UNCHANGED <<handlerVars, customerVars, pushVars, appVars>>

\* Mutant of OnClose: the 'close' listener of the accept branch is missing.
OnCloseNoDetach(ws) ==
  /\ ws \in clients
  /\ clients' = clients \ {ws}
  /\ readyState' = [readyState EXCEPT ![ws] = "closed"]
  /\ UNCHANGED <<msgListeners, debuggerWs>>
  /\ UNCHANGED <<closeCode, closeListeners, isDevToolsInBrowser, messageBuffer,
                 inspectorWs, inspectorListeners, wire, flushed, nextConn,
                 nextInspector, nMsgs, nCmds>>
  /\ UNCHANGED <<handlerVars, customerVars, pushVars, appVars>>

\* 'close' is emitted on a socket (the peer went away, or a close the proxy
\* started has completed): the server drops it from its client set, and the
\* listener of the accept branch, when the socket has one, runs.
OnClose(ws) ==
  /\ ws \in clients
  /\ clients' = clients \ {ws}
  /\ readyState' = [readyState EXCEPT ![ws] = "closed"]
  /\ IF ws \in closeListeners
     THEN /\ msgListeners' = msgListeners \ {debuggerWs}
          /\ debuggerWs' = NoWs
     ELSE UNCHANGED <<msgListeners, debuggerWs>>
  /\ UNCHANGED <<closeCode, closeListeners, isDevToolsInBrowser, messageBuffer,
                 inspectorWs, inspectorListeners, wire, flushed, nextConn,
                 nextInspector, nMsgs, nCmds>>
  /\ UNCHANGED <<handlerVars, customerVars, pushVars, appVars>>

\* The inspector emits 'message' on a socket that carries sendMessageToDebugger.
OnInspectorMessage(ins, data) ==
  /\ ins \in inspectorListeners
  /\ Events < MaxEvents
  /\ nMsgs' = nMsgs + 1
  /\ LET event == [id |-> nMsgs + 1, method |-> data.method,
                   sourceMapURL |-> data.sourceMapURL]
         st == SendMessageToDebugger([dbg |-> debuggerWs,
                 open |-> debuggerWs # NoWs /\ readyState[debuggerWs] = "open",
                 browser |-> isDevToolsInBrowser, buf |-> messageBuffer,
                 wire |-> wire], event)
     IN /\ wire' = st.wire
        /\ messageBuffer' = st.buf
  /\ UNCHANGED <<clients, readyState, closeCode, debuggerWs, msgListeners,
                 closeListeners, isDevToolsInBrowser, inspectorWs,
                 inspectorListeners, flushed, nextConn, nextInspector, nCmds>>
  /\ UNCHANGED <<handlerVars, customerVars, pushVars, appVars>>

\* sendMessageToInspector: a debugger socket that carries the listener emits
\* 'message'. A socket the proxy has started to close still emits the frames
\* its peer sent before the close handshake completed.
SendMessageToInspector(ws) ==
  /\ ws \in msgListeners
  /\ readyState[ws] \in {"open", "closing"}
  /\ Events < MaxEvents
  /\ nCmds' = nCmds + 1
  /\ wire' = IF inspectorWs # NoWs
             THEN Append(wire, Sent("inspector", inspectorWs,
                              DebuggerCommand(nCmds + 1), TRUE))
             ELSE wire
  /\ UNCHANGED <<clients, readyState, closeCode, debuggerWs, msgListeners,
                 closeListeners, isDevToolsInBrowser, messageBuffer, inspectorWs,
                 inspectorListeners, flushed, nextConn, nextInspector, nMsgs>>
  /\ UNCHANGED <<handlerVars, customerVars, pushVars, appVars>>

\* Mutant of OnInspectorConnection: the warning is sent, the debugger is not
\* closed.
OnInspectorConnectionNoClose(newWs) ==
  /\ inspectorListeners' = IF newWs # NoWs THEN inspectorListeners \cup {newWs}
                           ELSE inspectorListeners
  /\ IF debuggerWs # NoWs
     THEN /\ wire' = Append(wire, Sent("debugger", debuggerWs, ReloadWarning,
                                       readyState[debuggerWs] = "open"))
          /\ UNCHANGED <<readyState, closeCode>>
     ELSE UNCHANGED <<wire, readyState, closeCode>>

\* onInspectorConnection, given the new value of inspectorWs.
OnInspectorConnection(newWs) ==
  /\ inspectorListeners' = IF newWs # NoWs THEN inspectorListeners \cup {newWs}
                           ELSE inspectorListeners
  /\ IF debuggerWs # NoWs
     THEN /\ wire' = Append(wire, Sent("debugger", debuggerWs, ReloadWarning,
                                       readyState[debuggerWs] = "open"))
          /\ readyState' = [readyState EXCEPT ![debuggerWs] =
                              IF @ = "open" THEN "closing" ELSE @]
          /\ closeCode' = [closeCode EXCEPT ![debuggerWs] =
                              IF readyState[debuggerWs] = "open" THEN 1001 ELSE @]
     ELSE UNCHANGED <<wire, readyState, closeCode>>

\* updateInspectorConnection(newConnection): a fresh inspector socket, or none.
UpdateInspectorConnection(fresh) ==
  /\ Events < MaxEvents
  /\ nextInspector' = nextInspector + 1
  /\ LET newWs == IF fresh THEN nextInspector + 1 ELSE NoWs IN
       /\ inspectorWs' = newWs
       /\ OnInspectorConnection(newWs)
  /\ UNCHANGED <<clients, debuggerWs, msgListeners, closeListeners,
                 isDevToolsInBrowser, messageBuffer, flushed, nextConn, nMsgs,
                 nCmds>>
  /\ UNCHANGED <<handlerVars, customerVars, pushVars, appVars>>

\* The proxy as constructed without an inspector connection, untouched.
ProxyIdle ==
  /\ clients = {}
  /\ readyState = [c \in ConnIds |-> "none"]
  /\ closeCode = [c \in ConnIds |-> 0]
  /\ debuggerWs = NoWs
  /\ msgListeners = {}
  /\ closeListeners = {}
  /\ isDevToolsInBrowser = FALSE
  /\ messageBuffer = <<>>
  /\ wire = <<>>
  /\ flushed = <<>>
  /\ nextConn = 0
  /\ nMsgs = 0
  /\ nCmds = 0
  /\ inspectorWs = NoWs
  /\ inspectorListeners = {}
  /\ nextInspector = 0

ProxyNext ==
  \/ \E ua \in UserAgents : OnConnection(ua)
  \/ \E ws \in ConnIds : OnClose(ws)
  \/ \E ins \in InspectorIds, data \in InspectorData : OnInspectorMessage(ins, data)
  \/ \E ws \in ConnIds : SendMessageToInspector(ws)
  \/ \E fresh \in BOOLEAN : UpdateInspectorConnection(fresh)

\* ---------------------------------------------------------- miniOxygenHandler
\* A pathname is a sequence of tokens; "/" and "." are the separators.
PathTokens == {"/", ".", "well-known", "debug-network-server", "js", "JS", "products"}

\* String.prototype.toUpperCase on one token.
UpperToken(t) ==
  CASE t = "js" -> "JS"
    [] t = "products" -> "PRODUCTS"
    [] t = "well-known" -> "WELL-KNOWN"
    [] t = "debug-network-server" -> "DEBUG-NETWORK-SERVER"
    [] OTHER -> t

ToUpperCase(str) == [i \in 1..Len(str) |-> UpperToken(str[i])]

\* pathname.startsWith(prefix)
StartsWith(str, prefix) ==
  /\ Len(str) >= Len(prefix)
  /\ SubSeq(str, 1, Len(prefix)) = prefix

\* pathname.split('.').at(-1): what follows the last dot, the whole string
\* when it holds no dot.
LastDotSegment(str) ==
  LET dots == {i \in 1..Len(str) : str[i] = "."} IN
  IF dots = {} THEN str
  ELSE LET last == CHOOSE i \in dots : \A j \in dots : j <= i
       IN SubSeq(str, last + 1, Len(str))

DebugNetworkPath == <<"/", "debug-network-server">>
WellKnownPrefix == <<"/", ".", "well-known">>

\* env.staticAssetExtensions (STATIC_ASSET_EXTENSIONS.slice()), upper-case names.
StaticAssetExtensions == {<<"JS">>}

\* URL pathnames: they start with "/".
Pathnames ==
  {p \in UNION {[1..n -> PathTokens] : n \in 1..MaxPathLen} : p[1] = "/"}

Methods == {"GET", "POST", "HEAD"}
Statuses == {200, 404, 500}

NoResponse == [from |-> "none", status |-> 0]

\* const isAsset = wellKnown || !!staticAssetExtensions.has(extension.toUpperCase())
IsAsset(pathname) ==
  \/ StartsWith(pathname, WellKnownPrefix)
  \/ ToUpperCase(LastDotSegment(pathname)) \in StaticAssetExtensions

\* Mutant of FirstBinding: the debug-network route is taken for GET requests only.
FirstBindingDebugGetOnly(request) ==
  IF request.method = "GET" /\ request.path = DebugNetworkPath THEN "debugNetwork"
  ELSE IF request.method = "GET" /\ IsAsset(request.path) THEN "assets"
  ELSE "hydrogen"

\* The binding the handler fetches first.
FirstBinding(request) ==
  IF request.path = DebugNetworkPath THEN "debugNetwork"
  ELSE IF request.method = "GET" /\ IsAsset(request.path) THEN "assets"
  ELSE "hydrogen"

\* Header objects: each name the handler or a client may set, "absent" when
\* the object has no such key.
ClientHeaders == [{"request-id", "oxygen-buyer-ip", "h2-response-status"} -> {"absent", "client"}]

\* {...a, ...b}: the keys of b override those of a.
Spread(a, b) == [k \in DOMAIN a |-> IF b[k] # "absent" THEN b[k] ELSE a[k]]

\* requestInit.headers: the generated request-id, then env.oxygenHeadersMap,
\* then the headers of the request.
RequestInitHeaders(request) ==
  Spread(Spread([k \in DOMAIN request.headers |->
                   IF k = "request-id" THEN "generated-uuid" ELSE "absent"],
                [k \in DOMAIN request.headers |->
                   IF k = "oxygen-buyer-ip" THEN "127.0.0.1" ELSE "absent"]),
         request.headers)

\* One fetch on a service binding.
Call(binding, method, path, headers) ==
  [binding |-> binding, method |-> method, path |-> path, headers |-> headers]

HandlerIdle ==
  /\ hPc = "idle"
  /\ hRequest = [method |-> "GET", path |-> <<"/">>,
                 headers |-> [k \in {"request-id", "oxygen-buyer-ip",
                                     "h2-response-status"} |-> "absent"]]
  /\ hCalls = <<>>
  /\ hAssetsStatus = 0
  /\ hWaitUntil = <<>>
  /\ hReturned = NoResponse

\* miniOxygenHandler is entered and runs to its first await. The assets fetch
\* is a new Request(request.url, {signal, headers}), hence a GET; the hydrogen
\* fetch passes the request itself, with the headers of requestInit.
HandleRequest(request) ==
  /\ hPc = "idle"
  /\ hRequest' = request
  /\ hPc' = FirstBinding(request)
  /\ hCalls' = <<Call(hPc', IF hPc' = "assets" THEN "GET" ELSE request.method,
                       request.path,
                       IF hPc' = "hydrogen" THEN RequestInitHeaders(request)
                       ELSE request.headers)>>
  /\ hAssetsStatus' = 0
  /\ hWaitUntil' = <<>>
  /\ hReturned' = NoResponse
  /\ UNCHANGED <<proxyVars, customerVars, pushVars, appVars>>

\* env.debugNetwork.fetch(request) settles; its response is returned.
DebugNetworkResponds(status) ==
  /\ hPc = "debugNetwork"
  /\ hReturned' = [from |-> "debugNetwork", status |-> status]
  /\ hPc' = "done"
  /\ UNCHANGED <<hRequest, hCalls, hAssetsStatus, hWaitUntil>>
  /\ UNCHANGED <<proxyVars, customerVars, pushVars, appVars>>

\* Mutant of AssetsResponds: the assets response is returned whatever its status.
AssetsRespondsNo404Check(status) ==
  /\ hPc = "assets"
  /\ hAssetsStatus' = status
  /\ hReturned' = [from |-> "assets", status |-> status]
  /\ hPc' = "done"
  /\ UNCHANGED <<hRequest, hCalls, hWaitUntil>>
  /\ UNCHANGED <<proxyVars, customerVars, pushVars, appVars>>

\* env.assets.fetch(...) settles: `if (response.status !== 404) return response`,
\* otherwise the handler goes on to env.hydrogen.fetch(request, requestInit).
AssetsResponds(status) ==
  /\ hPc = "assets"
  /\ hAssetsStatus' = status
  /\ IF status # 404
     THEN /\ hReturned' = [from |-> "assets", status |-> status]
          /\ hPc' = "done"
          /\ UNCHANGED hCalls
     ELSE /\ hCalls' = Append(hCalls, Call("hydrogen", hRequest.method, hRequest.path,
                                            RequestInitHeaders(hRequest)))
          /\ hPc' = "hydrogen"
          /\ UNCHANGED hReturned
  /\ UNCHANGED <<hRequest, hWaitUntil>>
  /\ UNCHANGED <<proxyVars, customerVars, pushVars, appVars>>

\* Mutant of HydrogenResponds: the logRequest fetch carries the headers of the
\* request instead of those of requestInit.
HydrogenRespondsClientHeaders(status) ==
  /\ hPc = "hydrogen"
  /\ LET headers == [hRequest.headers EXCEPT !["h2-response-status"] =
                        CASE status = 200 -> "200" [] status = 404 -> "404"
                          [] status = 500 -> "500"]
     IN /\ hCalls' = Append(hCalls, Call("logRequest", hRequest.method,
                                         hRequest.path, headers))
        /\ hWaitUntil' = Append(hWaitUntil, [method |-> hRequest.method,
                                              path |-> hRequest.path,
                                              headers |-> headers,
                                              responseStatus |-> status])
  /\ hReturned' = [from |-> "hydrogen", status |-> status]
  /\ hPc' = "done"
  /\ UNCHANGED <<hRequest, hAssetsStatus>>
  /\ UNCHANGED <<proxyVars, customerVars, pushVars, appVars>>

\* env.hydrogen.fetch(...) settles: the logRequest fetch is handed to
\* context.waitUntil with the headers of requestInit and h2-response-status
\* (String(response.status); logRequest reads it back with Number), and the
\* response is returned.
HydrogenResponds(status) ==
  /\ hPc = "hydrogen"
  /\ LET headers == [hCalls[Len(hCalls)].headers EXCEPT !["h2-response-status"] =
                        CASE status = 200 -> "200" [] status = 404 -> "404"
                          [] status = 500 -> "500"]
     IN /\ hCalls' = Append(hCalls, Call("logRequest", hRequest.method,
                                         hRequest.path, headers))
        /\ hWaitUntil' = Append(hWaitUntil, [method |-> hRequest.method,
                                              path |-> hRequest.path,
                                              headers |-> headers,
                                              responseStatus |-> status])
  /\ hReturned' = [from |-> "hydrogen", status |-> status]
  /\ hPc' = "done"
  /\ UNCHANGED <<hRequest, hAssetsStatus>>
  /\ UNCHANGED <<proxyVars, customerVars, pushVars, appVars>>

HandlerNext ==
  \/ /\ hPc = "idle"
     /\ \E m \in Methods, p \in Pathnames, h \in ClientHeaders :
          HandleRequest([method |-> m, path |-> p, headers |-> h])
  \/ \E st \in Statuses : DebugNetworkResponds(st)
  \/ \E st \in Statuses : AssetsResponds(st)
  \/ \E st \in Statuses : HydrogenResponds(st)

\* ------------------------------------------------ createCustomerAccountClient
\* `undefined` / `null`.
Undef == "undefined"

\* !x for the strings the client tests.
Falsy(x) == x \in {Undef, ""}

\* The customer-account session value once unset: every field reads undefined.
UnsetSession ==
  [accessToken |-> Undef, expiresAt |-> Undef, refreshToken |-> Undef,
   idToken |-> Undef, codeVerifier |-> Undef, state |-> Undef, nonce |-> Undef]

\* clearSession(session): unsets the customer-account session key.
ClearSession == UnsetSession

\* Session values a call may find: expiresAt is "fresh" (checkExpires has
\* nothing to do) or "expired" (it refreshes the token).
Sessions ==
  [accessToken : {Undef, "at0"}, expiresAt : {Undef, "fresh", "expired"},
   refreshToken : {Undef, "rt0"}, idToken : {Undef, "id0"},
   codeVerifier : {Undef, "cv"}, state : {Undef, "s1"}, nonce : {Undef, "n1"}]

\* code and state of the callback URL (searchParams.get gives null when absent).
CallbackUrls == [code : {Undef, "", "c1"}, state : {Undef, "", "s1", "s2"}]

\* What the token endpoint may answer: its status, and the nonce in the id token.
TokenResponses == [status : {200, 400}, nonce : {Undef, "n1", "n2"}]

NoResponseYet == [status |-> 0, nonce |-> "none"]

\* response.ok
Ok(resp) == resp.status = 200

ClientMethods == {"isLoggedIn", "getAccessToken", "handleAuthStatus", "query", "mutate"}

Returned(v) == [kind |-> "returned", value |-> v]
Thrown(v) == [kind |-> "thrown", value |-> v]
Pending == [kind |-> "pending", value |-> Undef]

\* One HTTP request: where it goes, and the session when it was sent.
Fetch(url, sess) == [url |-> url, session |-> sess]

CustomerIdle ==
  /\ session = UnsetSession
  /\ cUrl = [code |-> Undef, state |-> Undef]
  /\ cPc = "idle"
  /\ cOp = "none"
  /\ cResult = Pending
  /\ cFetches = <<>>
  /\ cChecked = "no"
  /\ cSession0 = UnsetSession
  /\ cResponse = NoResponseYet

\* A client created for a request, over a session in any state.
CustomerInit ==
  /\ session \in Sessions
  /\ cUrl \in CallbackUrls
  /\ cPc = "idle"
  /\ cOp = "none"
  /\ cResult = Pending
  /\ cFetches = <<>>
  /\ cChecked = "no"
  /\ cSession0 = session
  /\ cResponse = NoResponseYet

\* What follows `await isLoggedIn()` in the method that was called, given its
\* result, the session and the requests made so far: isLoggedIn returns it,
\* getAccessToken returns the token, handleAuthStatus throws when logged out,
\* fetchCustomerAPI throws when there is no token and otherwise sends the request.
AfterIsLoggedIn(op, loggedIn, sess, fetches) ==
  LET accessToken == IF loggedIn THEN sess.accessToken ELSE Undef IN
  CASE op = "isLoggedIn" ->
         /\ cResult' = Returned(IF loggedIn THEN "true" ELSE "false")
         /\ cPc' = "done" /\ cFetches' = fetches
    [] op = "getAccessToken" ->
         /\ cResult' = Returned(accessToken)
         /\ cPc' = "done" /\ cFetches' = fetches
    [] op = "handleAuthStatus" ->
         /\ cResult' = IF loggedIn THEN Returned(Undef) ELSE Thrown("authStatusHandler()")
         /\ cPc' = "done" /\ cFetches' = fetches
    [] op \in {"query", "mutate"} ->
         IF Falsy(accessToken)
         THEN /\ cResult' = Thrown("authStatusHandler()")
              /\ cPc' = "done" /\ cFetches' = fetches
         ELSE /\ cResult' = Pending
              /\ cPc' = "api"
              /\ cFetches' = Append(fetches, Fetch("customerAccountApiUrl", sess))

\* Mutant of CallClient: isLoggedIn tests the access token only, not expiresAt.
CallClientNoExpiryTest(op) ==
  /\ cPc = "idle"
  /\ cOp' = op
  /\ IF Falsy(session.accessToken)
     THEN /\ AfterIsLoggedIn(op, FALSE, session, cFetches)
          /\ UNCHANGED cChecked
     ELSE IF session.expiresAt = "fresh"
     THEN /\ AfterIsLoggedIn(op, TRUE, session, cFetches)
          /\ cChecked' = "returned"
     ELSE /\ cChecked' = "pending"
          /\ cPc' = "refresh"
          /\ cFetches' = Append(cFetches, Fetch("refresh", session))
          /\ cResult' = Pending
  /\ UNCHANGED <<session, cUrl, cSession0, cResponse>>
  /\ UNCHANGED <<proxyVars, handlerVars, pushVars, appVars>>

\* isLoggedIn as entered by the method `op`: no token or no expiry means logged
\* out at once; otherwise checkExpires runs, and returns at once on a fresh
\* token or starts the refresh request on an expired one.
CallClient(op) ==
  /\ cPc = "idle"
  /\ cOp' = op
  /\ IF Falsy(session.accessToken) \/ Falsy(session.expiresAt)
     THEN /\ AfterIsLoggedIn(op, FALSE, session, cFetches)
          /\ UNCHANGED cChecked
     ELSE IF session.expiresAt = "fresh"
     THEN /\ AfterIsLoggedIn(op, TRUE, session, cFetches)
          /\ cChecked' = "returned"
     ELSE /\ cChecked' = "pending"
          /\ cPc' = "refresh"
          /\ cFetches' = Append(cFetches, Fetch("refresh", session))
          /\ cResult' = Pending
  /\ UNCHANGED <<session, cUrl, cSession0, cResponse>>
  /\ UNCHANGED <<proxyVars, handlerVars, pushVars, appVars>>

\* checkExpires' refresh settles: new tokens are stored and it returns, or the
\* session is cleared and it throws, which isLoggedIn turns into `false`.
RefreshResponds(ok) ==
  /\ cPc = "refresh"
  /\ session' = IF ok
                THEN [session EXCEPT !.accessToken = "at1", !.expiresAt = "fresh",
                                     !.refreshToken = "rt1", !.idToken = "id1"]
                ELSE ClearSession
  /\ cChecked' = IF ok THEN "returned" ELSE "threw"
  /\ AfterIsLoggedIn(cOp, ok, session', cFetches)
  /\ UNCHANGED <<cUrl, cOp, cSession0, cResponse>>
  /\ UNCHANGED <<proxyVars, handlerVars, pushVars, appVars>>

\* Mutant of ApiResponds: every non-ok answer clears the session.
ApiRespondsClearsOnAnyError(status, json) ==
  /\ cPc = "api"
  /\ cPc' = "done"
  /\ cResponse' = [status |-> status, nonce |-> "none"]
  /\ session' = IF Ok(cResponse') THEN session ELSE ClearSession
  /\ cResult' = IF status = 401 THEN Thrown("authStatusHandler()")
                ELSE IF Ok(cResponse') /\ json THEN Returned("data")
                ELSE Thrown("GraphQLError")
  /\ UNCHANGED <<cUrl, cOp, cFetches, cChecked, cSession0>>
  /\ UNCHANGED <<proxyVars, handlerVars, pushVars, appVars>>

\* The Customer Account API answers fetchCustomerAPI's request: 401 clears the
\* session and throws the auth status handler's result, another non-ok status
\* throws a GraphQL error, and an ok answer is parsed (or throws when the body
\* is not JSON).
ApiResponds(status, json) ==
  /\ cPc = "api"
  /\ cPc' = "done"
  /\ cResponse' = [status |-> status, nonce |-> "none"]
  /\ IF ~Ok(cResponse') /\ status = 401
     THEN /\ session' = ClearSession
          /\ cResult' = Thrown("authStatusHandler()")
     ELSE /\ UNCHANGED session
          /\ cResult' = IF Ok(cResponse') /\ json THEN Returned("data")
                        ELSE Thrown("GraphQLError")
  /\ UNCHANGED <<cUrl, cOp, cFetches, cChecked, cSession0>>
  /\ UNCHANGED <<proxyVars, handlerVars, pushVars, appVars>>

\* Mutant of Authorize: a state mismatch throws without clearing the session.
AuthorizeKeepsSessionOnMismatch ==
  /\ cPc = "idle"
  /\ cOp' = "authorize"
  /\ IF Falsy(cUrl.code) \/ Falsy(cUrl.state)
     THEN /\ session' = ClearSession
          /\ cResult' = Thrown("BadRequest")
          /\ cPc' = "done"
          /\ UNCHANGED cFetches
     ELSE IF session.state # cUrl.state \/ Falsy(session.codeVerifier)
     THEN /\ cResult' = Thrown("BadRequest")
          /\ cPc' = "done"
          /\ UNCHANGED <<session, cFetches>>
     ELSE /\ cFetches' = Append(cFetches, Fetch("token", session))
          /\ cPc' = "token"
          /\ UNCHANGED <<session, cResult>>
  /\ UNCHANGED <<cUrl, cChecked, cSession0, cResponse>>
  /\ UNCHANGED <<proxyVars, handlerVars, pushVars, appVars>>

\* customer.authorize() up to the token request.
Authorize ==
  /\ cPc = "idle"
  /\ cOp' = "authorize"
  /\ IF Falsy(cUrl.code) \/ Falsy(cUrl.state)
     THEN /\ session' = ClearSession
          /\ cResult' = Thrown("BadRequest")
          /\ cPc' = "done"
          /\ UNCHANGED cFetches
     ELSE IF session.state # cUrl.state
     THEN /\ session' = ClearSession
          /\ cResult' = Thrown("BadRequest")
          /\ cPc' = "done"
          /\ UNCHANGED cFetches
     ELSE IF Falsy(session.codeVerifier)
     THEN /\ cResult' = Thrown("BadRequest")
          /\ cPc' = "done"
          /\ UNCHANGED <<session, cFetches>>
     ELSE /\ cFetches' = Append(cFetches, Fetch("token", session))
          /\ cPc' = "token"
          /\ UNCHANGED <<session, cResult>>
  /\ UNCHANGED <<cUrl, cChecked, cSession0, cResponse>>
  /\ UNCHANGED <<proxyVars, handlerVars, pushVars, appVars>>

\* Mutant of TokenResponds: the nonce of the id token is not compared.
TokenRespondsNoNonceCheck(resp) ==
  /\ cPc = "token"
  /\ cResponse' = resp
  /\ IF ~Ok(resp)
     THEN /\ cResult' = Thrown("Response")
          /\ cPc' = "done"
          /\ UNCHANGED cFetches
     ELSE /\ cFetches' = Append(cFetches, Fetch("exchange", session))
          /\ cPc' = "exchange"
          /\ UNCHANGED cResult
  /\ UNCHANGED <<session, cUrl, cOp, cChecked, cSession0>>
  /\ UNCHANGED <<proxyVars, handlerVars, pushVars, appVars>>

\* The token endpoint answers: a non-ok answer is thrown as a Response, a nonce
\* that differs from the session's throws BadRequest, otherwise
\* exchangeAccessToken sends its request.
TokenResponds(resp) ==
  /\ cPc = "token"
  /\ cResponse' = resp
  /\ IF ~Ok(resp)
     THEN /\ cResult' = Thrown("Response")
          /\ cPc' = "done"
          /\ UNCHANGED cFetches
     ELSE IF session.nonce # resp.nonce
     THEN /\ cResult' = Thrown("BadRequest")
          /\ cPc' = "done"
          /\ UNCHANGED cFetches
     ELSE /\ cFetches' = Append(cFetches, Fetch("exchange", session))
          /\ cPc' = "exchange"
          /\ UNCHANGED cResult
  /\ UNCHANGED <<session, cUrl, cOp, cChecked, cSession0>>
  /\ UNCHANGED <<proxyVars, handlerVars, pushVars, appVars>>

\* exchangeAccessToken settles: when it throws, authorize throws; otherwise the
\* session value is replaced by the new tokens and the redirect is returned.
ExchangeResponds(ok) ==
  /\ cPc = "exchange"
  /\ cPc' = "done"
  /\ IF ok
     THEN /\ session' = [UnsetSession EXCEPT !.accessToken = "at1",
                           !.expiresAt = "fresh", !.refreshToken = "rt1",
                           !.idToken = "id1"]
          /\ cResult' = Returned("redirect")
     ELSE /\ cResult' = Thrown("Response")
          /\ UNCHANGED session
  /\ UNCHANGED <<cUrl, cOp, cFetches, cChecked, cSession0, cResponse>>
  /\ UNCHANGED <<proxyVars, handlerVars, pushVars, appVars>>

CustomerNext ==
  \/ \E op \in ClientMethods : CallClient(op)
  \/ \E ok \in BOOLEAN : RefreshResponds(ok)
  \/ \E st \in {200, 401, 500}, json \in BOOLEAN : ApiResponds(st, json)
  \/ Authorize
  \/ \E resp \in TokenResponses : TokenResponds(resp)
  \/ \E ok \in BOOLEAN : ExchangeResponds(ok)

\* ----------------------------------------------------- runCustomerAccountPush
\* A URL string, as its origin and what follows it; `undefined` is NoUrl and
\* the empty string has an empty origin.
NoUrl == [origin |-> Undef, path |-> Undef]
FalsyUrl(u) == Falsy(u.origin)

\* new URL(relative, devOrigin).toString(); the constructor throws on an empty
\* base (see InvalidUrl).
MakeUrl(relative, devOrigin) == [origin |-> devOrigin, path |-> relative]

\* The flags of the command; an absent redirect URI defaults to /account/authorize.
PushInputs ==
  [storefrontId : {Undef, "gid-flag"}, devOrigin : {"", "https://a.dev", "https://b.dev"},
   redirectUriRelativeUrl : {"/account/authorize", ""},
   logoutUriRelativeUrl : {Undef, "/logout"}]

\* const redirectUri / javascriptOrigin / logoutUri of a run (lines 67-73).
PushUrls(in) ==
  [redirectUri |-> IF ~Falsy(in.redirectUriRelativeUrl)
                   THEN MakeUrl(in.redirectUriRelativeUrl, in.devOrigin)
                   ELSE MakeUrl("", in.devOrigin),
   javascriptOrigin |-> MakeUrl("", in.devOrigin),
   logoutUri |-> IF ~Falsy(in.logoutUriRelativeUrl)
                 THEN MakeUrl(in.logoutUriRelativeUrl, in.devOrigin)
                 ELSE MakeUrl("", in.devOrigin)]

\* One of the `new URL(...)` calls of lines 67-73 throws.
InvalidUrl(in) ==
  /\ in.devOrigin = ""
  /\ ~Falsy(in.redirectUriRelativeUrl) \/ ~Falsy(in.logoutUriRelativeUrl)

\* customerAccountConfig?.x
NoAccountConfig == [redirectUri |-> NoUrl, javascriptOrigin |-> NoUrl, logoutUri |-> NoUrl]

OriginNotAllowed == "Javascript origin is not allowed for this application type"

\* userErrors lists the admin API may return.
UserErrorLists ==
  {<<>>, <<"Invalid redirect URI">>, <<OriginNotAllowed>>,
   <<"Invalid redirect URI", OriginNotAllowed>>}

ManualUpdate == "Manually update application setup"
EnablePublicAccess == "Enable Public access for Hydrogen"

\* The catch block: the AbortError thrown for an error carrying `userErrors`.
AbortErrorFor(userErrors) ==
  [kind |-> "thrown", error |-> "AbortError",
   nextSteps |-> IF \E i \in 1..Len(userErrors) : userErrors[i] = OriginNotAllowed
                 THEN <<EnablePublicAccess, ManualUpdate>>
                 ELSE <<ManualUpdate>>]

\* An error of login / linkStorefront that leaves the function as it is.
Passthrough(error) == [kind |-> "thrown", error |-> error, nextSteps |-> <<>>]

PushReturned == [kind |-> "returned", error |-> "none", nextSteps |-> <<>>]
PushRunning == [kind |-> "running", error |-> "none", nextSteps |-> <<>>]

NoRemoteCall == [add |-> NoAccountConfig, removeRegex |-> NoAccountConfig, called |-> FALSE]
NotReplaced == [success |-> FALSE, userErrors |-> <<>>, returned |-> FALSE]

PushIdle ==
  /\ localConfig = [storefrontId |-> Undef, customerAccountConfig |-> NoAccountConfig]
  /\ pPc = "idle"
  /\ pInput = [storefrontId |-> Undef, devOrigin |-> "",
               redirectUriRelativeUrl |-> "", logoutUriRelativeUrl |-> Undef]
  /\ pStorefrontId = Undef
  /\ pRemoteCall = NoRemoteCall
  /\ pReplaced = NotReplaced
  /\ pResult = PushRunning
  /\ pConfig0 = NoAccountConfig
  /\ pLastPushed = NoAccountConfig
  /\ nPushes = 0

\* A project that is linked to a storefront or not, and was never pushed.
PushInit ==
  /\ localConfig \in [storefrontId : {Undef, "gid-linked"},
                      customerAccountConfig : {NoAccountConfig}]
  /\ pPc = "idle"
  /\ pInput = [storefrontId |-> Undef, devOrigin |-> "",
               redirectUriRelativeUrl |-> "", logoutUriRelativeUrl |-> Undef]
  /\ pStorefrontId = Undef
  /\ pRemoteCall = NoRemoteCall
  /\ pReplaced = NotReplaced
  /\ pResult = PushRunning
  /\ pConfig0 = NoAccountConfig
  /\ pLastPushed = NoAccountConfig
  /\ nPushes = 0

\* runCustomerAccountPush is called.
PushStart(in) ==
  /\ pPc \in {"idle", "done"}
  /\ nPushes < MaxPushes
  /\ nPushes' = nPushes + 1
  /\ pInput' = in
  /\ pPc' = "getStorefrontId"
  /\ pStorefrontId' = Undef
  /\ pRemoteCall' = NoRemoteCall
  /\ pReplaced' = NotReplaced
  /\ pResult' = PushRunning
  /\ pConfig0' = localConfig.customerAccountConfig
  /\ UNCHANGED <<localConfig, pLastPushed>>
  /\ UNCHANGED <<proxyVars, handlerVars, customerVars, appVars>>

\* `await getStorefrontId(root, storefrontIdFromFlag)`, before the try block:
\* the flag, else the linked storefront of the config, else linkStorefront;
\* login and linkStorefront may throw, and the user may decline to link.
GetStorefrontId(outcome) ==
  /\ pPc = "getStorefrontId"
  /\ IF ~Falsy(pInput.storefrontId)
     THEN /\ outcome = "ok"
          /\ pStorefrontId' = pInput.storefrontId
          /\ pPc' = "try"
          /\ UNCHANGED <<localConfig, pResult>>
     ELSE IF outcome = "loginThrows"
     THEN /\ pResult' = Passthrough("login")
          /\ pPc' = "done"
          /\ UNCHANGED <<localConfig, pStorefrontId>>
     ELSE IF ~Falsy(localConfig.storefrontId)
     THEN /\ outcome = "ok"
          /\ pStorefrontId' = localConfig.storefrontId
          /\ pPc' = "try"
          /\ UNCHANGED <<localConfig, pResult>>
     ELSE CASE outcome = "linkThrows" ->
                 /\ pResult' = Passthrough("linkStorefront")
                 /\ pPc' = "done"
                 /\ UNCHANGED <<localConfig, pStorefrontId>>
            [] outcome = "linkDeclined" ->
                 /\ pStorefrontId' = Undef
                 /\ pPc' = "try"
                 /\ UNCHANGED <<localConfig, pResult>>
            [] outcome = "ok" ->
                 /\ localConfig' = [localConfig EXCEPT !.storefrontId = "gid-linked"]
                 /\ pStorefrontId' = "gid-linked"
                 /\ pPc' = "try"
                 /\ UNCHANGED pResult
  /\ UNCHANGED <<pInput, pRemoteCall, pReplaced, pConfig0, pLastPushed, nPushes>>
  /\ UNCHANGED <<proxyVars, handlerVars, customerVars, appVars>>

\* The try block up to the call of replaceCustomerApplicationUrls: the missing
\* storefront id, the URLs, the early return, login(root) and the request.
PushTry(loginOk) ==
  /\ pPc = "try"
  /\ LET urls == PushUrls(pInput)
         cac == localConfig.customerAccountConfig
     IN
     IF Falsy(pStorefrontId) \/ InvalidUrl(pInput)
     THEN /\ pResult' = AbortErrorFor(<<>>)
          /\ pPc' = "done"
          /\ UNCHANGED pRemoteCall
     ELSE IF FalsyUrl(urls.redirectUri) /\ FalsyUrl(urls.javascriptOrigin)
               /\ FalsyUrl(urls.logoutUri)
     THEN /\ pResult' = PushReturned
          /\ pPc' = "done"
          /\ UNCHANGED pRemoteCall
     ELSE IF ~loginOk
     THEN /\ pResult' = AbortErrorFor(<<>>)
          /\ pPc' = "done"
          /\ UNCHANGED pRemoteCall
     ELSE /\ pRemoteCall' = [add |-> urls, removeRegex |-> cac, called |-> TRUE]
          /\ pPc' = "replace"
          /\ UNCHANGED pResult
  /\ UNCHANGED <<localConfig, pInput, pStorefrontId, pReplaced, pConfig0,
                 pLastPushed, nPushes>>
  /\ UNCHANGED <<proxyVars, handlerVars, customerVars, appVars>>

\* Mutant of ReplaceReturns: only `success` is tested, userErrors are ignored.
ReplaceReturnsIgnoringUserErrors(success, userErrors) ==
  /\ pPc = "replace"
  /\ pReplaced' = [success |-> success, userErrors |-> userErrors, returned |-> TRUE]
  /\ IF ~success
     THEN /\ pResult' = AbortErrorFor(userErrors)
          /\ pPc' = "done"
     ELSE /\ pPc' = "setConfig"
          /\ UNCHANGED pResult
  /\ UNCHANGED <<localConfig, pInput, pStorefrontId, pRemoteCall, pConfig0,
                 pLastPushed, nPushes>>
  /\ UNCHANGED <<proxyVars, handlerVars, customerVars, appVars>>

\* replaceCustomerApplicationUrls returns {success, userErrors}:
\* `if (!success || userErrors.length)` throws into the catch block.
ReplaceReturns(success, userErrors) ==
  /\ pPc = "replace"
  /\ pReplaced' = [success |-> success, userErrors |-> userErrors, returned |-> TRUE]
  /\ IF ~success \/ Len(userErrors) # 0
     THEN /\ pResult' = AbortErrorFor(userErrors)
          /\ pPc' = "done"
     ELSE /\ pPc' = "setConfig"
          /\ UNCHANGED pResult
  /\ UNCHANGED <<localConfig, pInput, pStorefrontId, pRemoteCall, pConfig0,
                 pLastPushed, nPushes>>
  /\ UNCHANGED <<proxyVars, handlerVars, customerVars, appVars>>

\* setCustomerAccountConfig(root, {redirectUri, javascriptOrigin, logoutUri})
\* settles: the config is written, or it throws into the catch block.
SetCustomerAccountConfig(written) ==
  /\ pPc = "setConfig"
  /\ pPc' = "done"
  /\ IF written
     THEN /\ localConfig' = [localConfig EXCEPT !.customerAccountConfig = pRemoteCall.add]
          /\ pLastPushed' = pRemoteCall.add
          /\ pResult' = PushReturned
     ELSE /\ pResult' = AbortErrorFor(<<>>)
          /\ UNCHANGED <<localConfig, pLastPushed>>
  /\ UNCHANGED <<pInput, pStorefrontId, pRemoteCall, pReplaced, pConfig0, nPushes>>
  /\ UNCHANGED <<proxyVars, handlerVars, customerVars, appVars>>

PushNext ==
  \/ \E in \in PushInputs : PushStart(in)
  \/ \E o \in {"ok", "loginThrows", "linkThrows", "linkDeclined"} : GetStorefrontId(o)
  \/ \E loginOk \in BOOLEAN : PushTry(loginOk)
  \/ \E success \in BOOLEAN, ue \in UserErrorLists : ReplaceReturns(success, ue)
  \/ \E written \in BOOLEAN : SetCustomerAccountConfig(written)

\* ------------------------------------------------- worker entry: fetch handler
\* Responses of the Remix request handler and of maybeRedirect.
WorkerResponses == [status : {200, 201, 301, 404, 500},
                    body : {"page", "An unexpected error occurred"}]
NoWorkerResponse == [status |-> 0, body |-> ""]

\* new Response('An unexpected error occurred', {status: 500})
UnexpectedError == [status |-> 500, body |-> "An unexpected error occurred"]

WorkerReturned(resp) == [kind |-> "returned", response |-> resp]
WorkerRunning == [kind |-> "running", response |-> NoWorkerResponse]

\* The catch block: console.error(error), then the 500 response.
WorkerCatch(step) ==
  /\ wPc' = "done"
  /\ wThrew' = step
  /\ wResult' = WorkerReturned(UnexpectedError)

WorkerIdle ==
  /\ wPc = "idle"
  /\ wRequest = ""
  /\ wSecret = Undef
  /\ wHandled = NoWorkerResponse
  /\ wRedirected = NoWorkerResponse
  /\ wThrew = "none"
  /\ wResult = WorkerRunning

\* fetch(request, env, executionContext) up to the SESSION_SECRET test.
WorkerFetch(url, secret) ==
  /\ wPc \in {"idle", "done"}
  /\ wRequest' = url
  /\ wSecret' = secret
  /\ wHandled' = NoWorkerResponse
  /\ wRedirected' = NoWorkerResponse
  /\ IF Falsy(secret)
     THEN WorkerCatch("SESSION_SECRET")
     ELSE /\ wPc' = "setup"
          /\ wThrew' = "none"
          /\ wResult' = WorkerRunning
  /\ UNCHANGED <<toolVars, dataVars, locksVars, cliVars, httpVars>>

\* Promise.all([caches.open, HydrogenSession.init]), createStorefrontClient
\* and createRequestHandler: they complete, or one of them throws.
WorkerSetup(threw) ==
  /\ wPc = "setup"
  /\ IF threw = "none"
     THEN /\ wPc' = "handle"
          /\ UNCHANGED <<wThrew, wResult>>
     ELSE WorkerCatch(threw)
  /\ UNCHANGED <<wRequest, wSecret, wHandled, wRedirected>>
  /\ UNCHANGED <<toolVars, dataVars, locksVars, cliVars, httpVars>>

\* await handleRequest(request) settles, followed by the status test.
HandleRequestSettles(threw, response) ==
  /\ wPc = "handle"
  /\ IF threw
     THEN /\ WorkerCatch("handleRequest")
          /\ UNCHANGED wHandled
     ELSE /\ wHandled' = response
          /\ IF response.status = 404
             THEN /\ wPc' = "redirect"
                  /\ UNCHANGED <<wThrew, wResult>>
             ELSE /\ wPc' = "done"
                  /\ wResult' = WorkerReturned(response)
                  /\ UNCHANGED wThrew
  /\ UNCHANGED <<wRequest, wSecret, wRedirected>>
  /\ UNCHANGED <<toolVars, dataVars, locksVars, cliVars, httpVars>>

\* Mutant of MaybeRedirectSettles: `return maybeRedirect(...)` without await,
\* so that a rejection leaves the try block uncaught.
MaybeRedirectSettlesNoAwait(threw, response) ==
  /\ wPc = "redirect"
  /\ IF threw
     THEN /\ wPc' = "done"
          /\ wThrew' = "maybeRedirect"
          /\ wResult' = [kind |-> "thrown", response |-> NoWorkerResponse]
          /\ UNCHANGED wRedirected
     ELSE /\ wRedirected' = response
          /\ wPc' = "done"
          /\ wResult' = WorkerReturned(response)
          /\ UNCHANGED wThrew
  /\ UNCHANGED <<wRequest, wSecret, wHandled>>
  /\ UNCHANGED <<toolVars, dataVars, locksVars, cliVars, httpVars>>

\* `return await maybeRedirect({request, response, storefront})` settles.
MaybeRedirectSettles(threw, response) ==
  /\ wPc = "redirect"
  /\ IF threw
     THEN /\ WorkerCatch("maybeRedirect")
          /\ UNCHANGED wRedirected
     ELSE /\ wRedirected' = response
          /\ wPc' = "done"
          /\ wResult' = WorkerReturned(response)
          /\ UNCHANGED wThrew
  /\ UNCHANGED <<wRequest, wSecret, wHandled>>
  /\ UNCHANGED <<toolVars, dataVars, locksVars, cliVars, httpVars>>

WorkerNext ==
  \* request urls, and env.SESSION_SECRET unset, empty or set
  \/ \E url \in {"/", "/products/shoe", "/old-path"},
        secret \in {Undef, "", "s3cr3t", "other"} : WorkerFetch(url, secret)
  \/ \E threw \in {"none", "caches.open", "HydrogenSession.init",
                   "createStorefrontClient"} : WorkerSetup(threw)
  \/ \E threw \in BOOLEAN, r \in WorkerResponses : HandleRequestSettles(threw, r)
  \/ \E threw \in BOOLEAN, r \in WorkerResponses : MaybeRedirectSettles(threw, r)

\* ------------------------------------------------ storefront data (app/data)
\* Product ids; the API returns lists of at most MaxProducts of them.
ProductIds == {"p1", "p2", "p3"}

\* The loaders that are modelled.
EntityLoaders == {"getProductData", "getCollection"}

\* What the Storefront API answers: response.ok and the body. The body is text
\* that is not JSON, the JSON null, a JSON scalar, or a JSON object whose data
\* member is missing, null or a value; a data value holds the entity asked for
\* ("null" when there is none) or the two product lists.
StorefrontBodies(op) ==
  LET none == [kind : {"text", "null", "scalar"}, data : {"missing"},
               entity : {"null"}, recommended : {<<>>}, additional : {<<>>}]
      nodata == [kind : {"object"}, data : {"missing", "null"},
                 entity : {"null"}, recommended : {<<>>}, additional : {<<>>}]
      ProductLists == UNION {[1..n -> ProductIds] : n \in 0..MaxProducts}
  IN none \cup nodata \cup
     IF op \in EntityLoaders
     THEN [kind : {"object"}, data : {"value"}, entity : {"null", "e1", "e2"},
           recommended : {<<>>}, additional : {<<>>}]
     ELSE [kind : {"object"}, data : {"value"}, entity : {"null"},
           recommended : ProductLists, additional : ProductLists]

\* getStorefrontData: response.json() of an ok answer (it rejects on text that
\* is not JSON); for a non-ok answer JSON.parse of the text, or {errors} when
\* that throws.
GetStorefrontData(ok, body) ==
  IF body.kind = "text"
  THEN IF ok THEN [threw |-> "SyntaxError", value |-> body]
       ELSE [threw |-> "none", value |-> [body EXCEPT !.kind = "object"]]
  ELSE [threw |-> "none", value |-> body]

DataReturned(entity, products) ==
  [kind |-> "returned", error |-> "none", entity |-> entity, products |-> products]
DataThrown(error) ==
  [kind |-> "thrown", error |-> error, entity |-> "null", products |-> <<>>]
DataPending ==
  [kind |-> "pending", error |-> "none", entity |-> "null", products |-> <<>>]

\* `const {data} = await getStorefrontData(...)` and `invariant(data, ...)`:
\* the error thrown, or "none" when data is there. Destructuring null throws a
\* TypeError; a scalar has no data member.
DataOrThrow(sd) ==
  IF sd.threw # "none" THEN sd.threw
  ELSE IF sd.value.kind = "null" THEN "TypeError"
  ELSE IF sd.value.kind = "scalar" \/ sd.value.data # "value"
       THEN "Invariant failed: No data returned from Shopify API"
  ELSE "none"

\* Mutant of EntityResult: the `if (!product)` / `if (!data.collection)` test
\* is missing.
EntityResultNoNullTest(sd) ==
  IF DataOrThrow(sd) # "none" THEN DataThrown(DataOrThrow(sd))
  ELSE DataReturned(sd.value.entity, <<>>)

\* getProductData / getCollection after getStorefrontData settled.
EntityResult(sd) ==
  IF DataOrThrow(sd) # "none" THEN DataThrown(DataOrThrow(sd))
  ELSE IF sd.value.entity = "null" THEN DataThrown("Response 404")
  ELSE DataReturned(sd.value.entity, <<>>)

\* array.findIndex((value2) => value2.id === id) and array.indexOf(x), both
\* 0-based and -1 when nothing matches; `ids` are the values compared.
IndexOf(ids, x) ==
  IF \E i \in 1..Len(ids) : ids[i] = x
  THEN (CHOOSE i \in 1..Len(ids) :
          ids[i] = x /\ \A j \in 1..(i - 1) : ids[j] # x) - 1
  ELSE -1

\* .filter((value, index, array) => array.findIndex(same id) === index), over
\* the positions from `index` (1-based) on.
RECURSIVE FilterFirstById(_, _)
FilterFirstById(array, index) ==
  IF index > Len(array) THEN <<>>
  ELSE (IF IndexOf([i \in 1..Len(array) |-> array[i].id], array[index].id) = index - 1
        THEN <<array[index]>> ELSE <<>>)
       \o FilterFirstById(array, index + 1)

\* array.splice(start, 1): a negative start counts from the end.
Splice1(array, start) ==
  LET n == Len(array)
      s == IF start < 0 THEN (IF n + start < 0 THEN 0 ELSE n + start)
           ELSE (IF start > n THEN n ELSE start)
  IN [i \in 1..(IF s < n THEN n - 1 ELSE n) |->
        IF i <= s THEN array[i] ELSE array[i + 1]]

\* products.recommended.concat(products.additional.nodes): the products with
\* the list each came from.
MergedProducts(value) ==
  [i \in 1..Len(value.recommended) |->
     [id |-> value.recommended[i], from |-> "recommended"]]
  \o [i \in 1..Len(value.additional) |->
     [id |-> value.additional[i], from |-> "additional"]]

\* getRecommendedProducts after getStorefrontData settled.
RecommendedResult(sd, productId) ==
  IF DataOrThrow(sd) # "none" THEN DataThrown(DataOrThrow(sd))
  ELSE LET mergedProducts == FilterFirstById(MergedProducts(sd.value), 1)
           originalProduct ==
             IndexOf([i \in 1..Len(mergedProducts) |-> mergedProducts[i].id],
                     productId)
       IN DataReturned("null", Splice1(mergedProducts, originalProduct))

\* No answer of the Storefront API yet.
NoAnswer ==
  [ok |-> FALSE, body |-> [kind |-> "none", data |-> "missing", entity |-> "null",
                           recommended |-> <<>>, additional |-> <<>>]]

DataIdle ==
  /\ dPc = "idle"
  /\ dOp = "none"
  /\ dArg = ""
  /\ dApi = NoAnswer
  /\ dResult = DataPending

\* A loader is called: getProductData(handle), getCollection({handle}) or
\* getRecommendedProducts(productId); it awaits getStorefrontData.
DataCall(op, arg) ==
  /\ dPc \in {"idle", "done"}
  /\ dPc' = "fetch"
  /\ dOp' = op
  /\ dArg' = arg
  /\ dResult' = DataPending
  /\ dApi' = NoAnswer
  /\ UNCHANGED <<toolVars, workerVars, locksVars, cliVars, httpVars>>

\* The Storefront API answers and the loader runs to its end.
StorefrontResponds(ok, body) ==
  /\ dPc = "fetch"
  /\ body \in StorefrontBodies(dOp)
  /\ dPc' = "done"
  /\ dApi' = [ok |-> ok, body |-> body]
  /\ dResult' = IF dOp \in EntityLoaders
                THEN EntityResult(GetStorefrontData(ok, body))
                ELSE RecommendedResult(GetStorefrontData(ok, body), dArg)
  /\ UNCHANGED <<dOp, dArg>>
  /\ UNCHANGED <<toolVars, workerVars, locksVars, cliVars, httpVars>>

DataNext ==
  \/ \E op \in EntityLoaders, handle \in {"shoe", "hat"} : DataCall(op, handle)
  \/ \E productId \in ProductIds : DataCall("getRecommendedProducts", productId)
  \/ \E ok \in BOOLEAN, body \in StorefrontBodies(dOp) : StorefrontResponds(ok, body)

\* ------------------------------------- customer account client: refresh locks
\* Concurrent calls on customer account clients. Each client is made by one
\* createCustomerAccountClient call and owns the `locks` object of line 93.
ClientIds == 1..MaxClients
CallIds == 1..MaxCalls
TableIds == 1..(MaxClients + MaxCalls)


\* The first id of `ids` that `used` leaves free.
FreshId(ids, used) == CHOOSE i \in ids \ used : \A j \in ids \ used : i <= j

\* Lock tables that exist.
TablesInUse == {kTableOf[c] : c \in ClientIds} \cup {kCalls[k].table : k \in CallIds}

\* Refreshes of a client that have not settled.
InFlight(c) == {r \in CallIds : kRefresh[r].client = c /\ kRefresh[r].state = "inflight"}

LocksIdle ==
  /\ kTableOf = [c \in ClientIds |-> 0]
  /\ kSession = [c \in ClientIds |-> "none"]
  /\ kLock = [t \in TableIds |-> 0]
  /\ kCalls = [k \in CallIds |->
                 [client |-> 0, table |-> 0, pc |-> "none", refresh |-> 0]]
  /\ kRefresh = [r \in CallIds |-> [client |-> 0, state |-> "none"]]

\* createCustomerAccountClient for a new request: `const locks: Locks = {}`.
\* The request's session has no tokens, tokens that are valid, or tokens that
\* have expired.
CreateClient(sess) ==
  /\ \E c \in ClientIds : kTableOf[c] = 0
  /\ LET c == FreshId(ClientIds, {x \in ClientIds : kTableOf[x] # 0})
         t == FreshId(TableIds, TablesInUse)
     IN /\ kTableOf' = [kTableOf EXCEPT ![c] = t]
        /\ kSession' = [kSession EXCEPT ![c] = sess]
  /\ UNCHANGED <<kLock, kCalls, kRefresh>>
  /\ UNCHANGED <<toolVars, workerVars, dataVars, cliVars, httpVars>>

\* checkExpires({locks, expiresAt, ...}) up to its await, for call k of client
\* c with lock table t: nothing to do while the token has not expired;
\* otherwise the refresh held in locks.refresh is awaited, after starting one
\* when there is none.
CheckExpires(k, c, t) ==
  IF kSession[c] = "valid"
  THEN /\ kCalls' = [kCalls EXCEPT ![k] =
                       [client |-> c, table |-> t, pc |-> "true", refresh |-> 0]]
       /\ UNCHANGED <<kLock, kRefresh>>
  ELSE LET r == IF kLock[t] = 0 THEN FreshId(CallIds, {x \in CallIds : kRefresh[x].state # "none"}) ELSE kLock[t]
       IN /\ kLock' = [kLock EXCEPT ![t] = r]
          /\ kRefresh' = IF kLock[t] = 0
                         THEN [kRefresh EXCEPT ![r] = [client |-> c, state |-> "inflight"]]
                         ELSE kRefresh
          /\ kCalls' = [kCalls EXCEPT ![k] =
                          [client |-> c, table |-> t, pc |-> "await", refresh |-> r]]

\* Mutant of IsLoggedIn: the lock table is made by the call, not by the client.
IsLoggedInOwnLocks(c) ==
  /\ kTableOf[c] # 0
  /\ \E k \in CallIds : kCalls[k].pc = "none"
  /\ LET k == FreshId(CallIds, {x \in CallIds : kCalls[x].pc # "none"}) IN
       IF kSession[c] = "unset"
       THEN /\ kCalls' = [kCalls EXCEPT ![k] =
                            [client |-> c, table |-> 0, pc |-> "false", refresh |-> 0]]
            /\ UNCHANGED <<kLock, kRefresh>>
       ELSE CheckExpires(k, c, FreshId(TableIds, TablesInUse))
  /\ UNCHANGED <<kTableOf, kSession>>
  /\ UNCHANGED <<toolVars, workerVars, dataVars, cliVars, httpVars>>

\* isLoggedIn of client c is entered, by itself or through handleAuthStatus,
\* getAccessToken, query or mutate: false at once without tokens, else
\* checkExpires with the client's `locks`.
IsLoggedIn(c) ==
  /\ kTableOf[c] # 0
  /\ \E k \in CallIds : kCalls[k].pc = "none"
  /\ LET k == FreshId(CallIds, {x \in CallIds : kCalls[x].pc # "none"}) IN
       IF kSession[c] = "unset"
       THEN /\ kCalls' = [kCalls EXCEPT ![k] =
                            [client |-> c, table |-> 0, pc |-> "false", refresh |-> 0]]
            /\ UNCHANGED <<kLock, kRefresh>>
       ELSE CheckExpires(k, c, kTableOf[c])
  /\ UNCHANGED <<kTableOf, kSession>>
  /\ UNCHANGED <<toolVars, workerVars, dataVars, cliVars, httpVars>>

\* A refresh settles and the calls awaiting it resume, one after the other in
\* the same run of the microtask queue. Resolved: the new tokens are in the
\* session, each call deletes locks.refresh and isLoggedIn returns true.
\* Rejected: each call clears the session and throws, which isLoggedIn turns
\* into false; locks.refresh is left as it is.
RefreshSettles(r, ok) ==
  /\ kRefresh[r].state = "inflight"
  /\ LET c == kRefresh[r].client IN
       /\ kRefresh' = [kRefresh EXCEPT ![r].state = IF ok THEN "resolved" ELSE "rejected"]
       /\ kSession' = [kSession EXCEPT ![c] = IF ok THEN "valid" ELSE "unset"]
       /\ kCalls' = [k \in CallIds |->
                       IF kCalls[k].pc = "await" /\ kCalls[k].refresh = r
                       THEN [kCalls[k] EXCEPT !.pc = IF ok THEN "true" ELSE "false"]
                       ELSE kCalls[k]]
       /\ kLock' = [t \in TableIds |->
                      IF ok /\ \E k \in CallIds : /\ kCalls[k].pc = "await"
                                                  /\ kCalls[k].refresh = r
                                                  /\ kCalls[k].table = t
                      THEN 0 ELSE kLock[t]]
  /\ UNCHANGED kTableOf
  /\ UNCHANGED <<toolVars, workerVars, dataVars, cliVars, httpVars>>

\* Time passes: the access token of a client's session expires.
TokenExpires(c) ==
  /\ kSession[c] = "valid"
  /\ kSession' = [kSession EXCEPT ![c] = "expired"]
  /\ UNCHANGED <<kTableOf, kLock, kCalls, kRefresh>>
  /\ UNCHANGED <<toolVars, workerVars, dataVars, cliVars, httpVars>>

LocksNext ==
  \/ \E sess \in {"unset", "valid", "expired"} : CreateClient(sess)
  \/ \E c \in ClientIds : IsLoggedIn(c)
  \/ \E r \in CallIds, ok \in BOOLEAN : RefreshSettles(r, ok)
  \/ \E c \in ClientIds : TokenExpires(c)

\* ------------------------------------------------- CLI commands: list, build
\* Commit messages are sequences of words and line breaks of at most
\* MaxMessageLen items; NoMessage is `commitMessage: null`.
NoMessage == <<"null">>

\* Deployments: createdAt as the year, month and day of its ISO-8601 string
\* (the date is read in UTC), and the commit message.
Deployments ==
  [createdAt : [year : {"2023"}, month : {"03", "12"}, day : {"22", "05"}],
   commitMessage : {NoMessage} \cup
     UNION {[1..n -> {"Update README.md", "\n", "why"}] : n \in 1..MaxMessageLen}]

\* The date as month/day/year, the numbers without a leading zero.
FormatDate(createdAt) ==
  LET plain(n) == CASE n = "03" -> "3" [] n = "05" -> "5" [] OTHER -> n
  IN <<plain(createdAt.month), "/", plain(createdAt.day), "/", createdAt.year>>

\* commitMessage.split(/\n/)[0]
RECURSIVE FirstLine(_)
FirstLine(message) ==
  IF message = <<>> \/ Head(message) = "\n" THEN <<>>
  ELSE <<Head(message)>> \o FirstLine(Tail(message))

\* Mutant of FormatDeployment: the whole commit message is appended.
FormatDeploymentWholeMessage(deployment) ==
  IF deployment.commitMessage = NoMessage THEN FormatDate(deployment.createdAt)
  ELSE FormatDate(deployment.createdAt) \o <<", ">> \o deployment.commitMessage

\* formatDeployment(deployment)
FormatDeployment(deployment) ==
  IF deployment.commitMessage = NoMessage THEN FormatDate(deployment.createdAt)
  ELSE FormatDate(deployment.createdAt) \o <<", ">>
       \o FirstLine(deployment.commitMessage)

\* The options of runViteBuild that decide which steps run are lockfileCheck
\* (Undef when it is not passed, "true" or "false") and useCodegen.

\* Mutant of BuildPlan: the lockfile check runs only when asked for, and after
\* the client build.
BuildPlanLateCheck(options) ==
  <<"getViteConfig", "import vite", "client build">>
  \o (IF options.lockfileCheck = "true" THEN <<"checkLockfileStatus">> ELSE <<>>)
  \o <<"server build", "removeFile">>
  \o (IF options.useCodegen THEN <<"codegen">> ELSE <<>>)
  \o <<"fileSize">>

\* The awaited steps of runViteBuild, in the order in which it reaches them.
BuildPlan(options) ==
  (IF options.lockfileCheck \in {Undef, "true"}
   THEN <<"checkLockfileStatus">> ELSE <<>>)
  \o <<"getViteConfig", "import vite", "client build", "server build", "removeFile">>
  \o (IF options.useCodegen THEN <<"codegen">> ELSE <<>>)
  \o <<"fileSize">>

CliIdle ==
  /\ fDeployment = [createdAt |-> [year |-> "", month |-> "", day |-> ""],
                    commitMessage |-> NoMessage]
  /\ fOut = <<>>
  /\ bOptions = [lockfileCheck |-> Undef, useCodegen |-> FALSE]
  /\ bStep = 0
  /\ bTrace = <<>>
  /\ bResult = "idle"
  /\ iOptions = [force |-> FALSE, language |-> "js"]
  /\ iDir0 = "absent"
  /\ iDir = "absent"
  /\ iAnswer = "none"
  /\ iPc = "idle"
  /\ iOut = <<>>
  /\ iError = "none"

\* `list` prints a storefront's latest deployment with formatDeployment. A run
\* of the CLI is one command: list here, build below.
ListDeployment(deployment) ==
  /\ bResult = "idle"
  /\ iPc = "idle"
  /\ fDeployment' = deployment
  /\ fOut' = FormatDeployment(deployment)
  /\ UNCHANGED <<bOptions, bStep, bTrace, bResult, initVars>>
  /\ UNCHANGED <<toolVars, workerVars, dataVars, locksVars, httpVars>>

\* runViteBuild(options) up to its first await.
RunViteBuild(options) ==
  /\ fOut = <<>>
  /\ iPc = "idle"
  /\ bResult \in {"idle", "returned", "thrown"}
  /\ bOptions' = options
  /\ bStep' = 1
  /\ bTrace' = <<[step |-> BuildPlan(options)[1], at |-> "start"]>>
  /\ bResult' = "running"
  /\ UNCHANGED <<fDeployment, fOut, initVars>>
  /\ UNCHANGED <<toolVars, workerVars, dataVars, locksVars, httpVars>>

\* The step runViteBuild awaits settles: a rejection leaves runViteBuild, a
\* fulfilment lets it run to the next await or to its end.
BuildStepSettles(ok) ==
  /\ bResult = "running"
  /\ LET plan == BuildPlan(bOptions)
         ended == Append(bTrace, [step |-> plan[bStep],
                                  at |-> IF ok THEN "end" ELSE "threw"])
     IN IF ~ok
        THEN /\ bResult' = "thrown"
             /\ bTrace' = ended
             /\ UNCHANGED bStep
        ELSE IF bStep = Len(plan)
        THEN /\ bResult' = "returned"
             /\ bTrace' = ended
             /\ UNCHANGED bStep
        ELSE /\ bStep' = bStep + 1
             /\ bTrace' = Append(ended, [step |-> plan[bStep + 1], at |-> "start"])
             /\ UNCHANGED bResult
  /\ UNCHANGED <<bOptions, fDeployment, fOut, initVars>>
  /\ UNCHANGED <<toolVars, workerVars, dataVars, locksVars, httpVars>>

\* projectExists(projectDir): the path exists, is a directory and has entries.
ProjectExists(dir) == dir \in {"nonempty", "created"}

\* runInit(options) up to the first await whose outcome matters: the imports
\* and the template, language and path prompts are behind it, language being
\* options.language or the answer, and projectExists has resolved.
RunInit(options, dir) ==
  /\ iPc = "idle"
  /\ bResult = "idle"
  /\ fOut = <<>>
  /\ iOptions' = options
  /\ iDir0' = dir
  /\ iDir' = dir
  /\ iAnswer' = "none"
  /\ iOut' = <<>>
  /\ iError' = "none"
  /\ iPc' = IF ~ProjectExists(dir) THEN "createApp"
            ELSE IF ~options.force THEN "prompt"
            ELSE "remove"
  /\ UNCHANGED <<fDeployment, fOut, bOptions, bStep, bTrace, bResult>>
  /\ UNCHANGED <<toolVars, workerVars, dataVars, locksVars, httpVars>>

\* The deleteFiles prompt is answered.
DeletePromptAnswers(deleteFiles) ==
  /\ iPc = "prompt"
  /\ iAnswer' = deleteFiles
  /\ IF deleteFiles = "false"
     THEN /\ iOut' = Append(iOut, "renderInfo: already exists")
          /\ iPc' = "returned"
     ELSE /\ iPc' = "remove"
          /\ UNCHANGED iOut
  /\ UNCHANGED <<iOptions, iDir0, iDir, iError>>
  /\ UNCHANGED <<fDeployment, fOut, bOptions, bStep, bTrace, bResult>>
  /\ UNCHANGED <<toolVars, workerVars, dataVars, locksVars, httpVars>>

\* The promise runInit awaits settles. fs.remove, createApp, transpileProject
\* and the steps from packageManagerUsedForCreating to installNodeModules
\* ("install") fulfil or reject; fs.rmdir, which removes empty directories
\* only, rejects on the directory createApp has filled.
InitStepSettles(ok) ==
  /\ iPc \in {"remove", "createApp", "transpile", "rmdir", "install"}
  /\ iPc = "rmdir" => ok = (iDir = "empty")
  /\ CASE ~ok /\ iPc = "transpile" ->
            /\ iPc' = "rmdir"
            /\ UNCHANGED <<iDir, iOut, iError>>
       [] ~ok /\ iPc # "transpile" ->
            /\ iPc' = "thrown"
            /\ iError' = iPc
            /\ UNCHANGED <<iDir, iOut>>
       [] ok /\ iPc = "remove" ->
            /\ iDir' = "absent"
            /\ iPc' = "createApp"
            /\ UNCHANGED <<iOut, iError>>
       [] ok /\ iPc = "createApp" ->
            /\ iDir' = "created"
            /\ iPc' = IF iOptions.language = "js" THEN "transpile" ELSE "install"
            /\ UNCHANGED <<iOut, iError>>
       [] ok /\ iPc = "transpile" ->
            /\ iPc' = "install"
            /\ UNCHANGED <<iDir, iOut, iError>>
       [] ok /\ iPc = "rmdir" ->
            /\ iDir' = "absent"
            /\ iPc' = "thrown"
            /\ iError' = "transpile"
            /\ UNCHANGED iOut
       [] ok /\ iPc = "install" ->
            /\ iOut' = iOut \o <<"renderSuccess", "renderInfo: inventory">>
            /\ iPc' = "returned"
            /\ UNCHANGED <<iDir, iError>>
  /\ UNCHANGED <<iOptions, iDir0, iAnswer>>
  /\ UNCHANGED <<fDeployment, fOut, bOptions, bStep, bTrace, bResult>>
  /\ UNCHANGED <<toolVars, workerVars, dataVars, locksVars, httpVars>>

CliNext ==
  \/ \E deployment \in Deployments : ListDeployment(deployment)
  \/ \E options \in [lockfileCheck : {Undef, "true", "false"},
                      useCodegen : BOOLEAN] : RunViteBuild(options)
  \/ \E ok \in BOOLEAN : BuildStepSettles(ok)
  \/ \E options \in [force : BOOLEAN, language : {"js", "ts"}],
        dir \in {"absent", "file", "empty", "nonempty"} : RunInit(options, dir)
  \/ \E deleteFiles \in {"true", "false"} : DeletePromptAnswers(deleteFiles)
  \/ \E ok \in BOOLEAN : InitStepSettles(ok)

\* ------------------------------------------- inspector proxy: the HTTP server
\* req.url as its pieces, "?" standing alone; a request target starts with a
\* path piece. The http server always sets url on the requests it emits.
Urls ==
  { u \in UNION { [1..n -> {"/json", "/list", "/version", "/__index.js.map",
                           "?", "for_tab"}] : n \in 1..MaxUrlLen } :
      u[1] \notin {"?", "for_tab"} }

\* req.url?.split('?')[0] ?? ''
UrlPath(url) ==
  LET marks == { i \in 1..Len(url) : url[i] = "?" } IN
  IF marks = {} THEN url
  ELSE SubSeq(url, 1, (CHOOSE i \in marks : \A j \in marks : i <= j) - 1)

\* The request listener of createServer: what has happened to res when the
\* listener is left. readable: readFileSync finds the source map file.
HttpRespond(path, readable) ==
  CASE path = <<"/json", "/version">> ->
         [ended |-> TRUE, threw |-> FALSE, contentType |-> "application/json",
          body |-> [kind |-> "version", id |-> "", url |-> ""]]
    [] path \in {<<"/json">>, <<"/json", "/list">>} ->
         [ended |-> TRUE, threw |-> FALSE, contentType |-> "application/json",
          body |-> [kind |-> "targets", id |-> sessionId,
                    url |-> IF inspectorWs # NoWs THEN "https://inspector-host"
                            ELSE "https://localhost:port/ws"]]
    [] path = <<"/__index.js.map">> ->
         IF readable
         THEN [ended |-> TRUE, threw |-> FALSE, contentType |-> "text/plain",
               body |-> [kind |-> "sourcemap", id |-> "", url |-> ""]]
         ELSE [ended |-> FALSE, threw |-> TRUE, contentType |-> "text/plain",
               body |-> [kind |-> "none", id |-> "", url |-> ""]]
    [] OTHER ->
         [ended |-> FALSE, threw |-> FALSE, contentType |-> "none",
          body |-> [kind |-> "none", id |-> "", url |-> ""]]

\* No request has been handled.
HttpIdle ==
  /\ sessionId = "uuid-1"
  /\ httpUrl = <<>>
  /\ httpRes = [ended |-> FALSE, threw |-> FALSE, contentType |-> "none",
                body |-> [kind |-> "idle", id |-> "", url |-> ""]]

\* The server emits 'request': the listener runs to its end.
HttpRequest(url, readable) ==
  /\ httpUrl' = url
  /\ httpRes' = HttpRespond(UrlPath(url), readable)
  /\ UNCHANGED sessionId
  /\ UNCHANGED <<toolVars, workerVars, dataVars, locksVars, cliVars>>

HttpNext ==
  \E url \in Urls, readable \in BOOLEAN : HttpRequest(url, readable)

\* ------------------------------------------------------------ specifications
\* Each specification runs one component; the others stay as constructed.
ToolsIdle == ProxyIdle /\ HandlerIdle /\ CustomerIdle /\ PushIdle
AppIdle == WorkerIdle /\ DataIdle /\ LocksIdle /\ CliIdle /\ HttpIdle

ProxySpecInit == ProxyInit /\ HandlerIdle /\ CustomerIdle /\ PushIdle /\ AppIdle
SpecProxy == ProxySpecInit /\ [][ProxyNext]_vars

HandlerSpecInit == HandlerIdle /\ ProxyIdle /\ CustomerIdle /\ PushIdle /\ AppIdle
SpecHandler == HandlerSpecInit /\ [][HandlerNext]_vars

CustomerSpecInit == CustomerInit /\ ProxyIdle /\ HandlerIdle /\ PushIdle /\ AppIdle
SpecCustomer == CustomerSpecInit /\ [][CustomerNext]_vars

PushSpecInit == PushInit /\ ProxyIdle /\ HandlerIdle /\ CustomerIdle /\ AppIdle
SpecPush == PushSpecInit /\ [][PushNext]_vars

WorkerSpecInit == WorkerIdle /\ ToolsIdle /\ DataIdle /\ LocksIdle /\ CliIdle /\ HttpIdle
SpecWorker == WorkerSpecInit /\ [][WorkerNext]_vars

DataSpecInit == DataIdle /\ ToolsIdle /\ WorkerIdle /\ LocksIdle /\ CliIdle /\ HttpIdle
SpecData == DataSpecInit /\ [][DataNext]_vars

LocksSpecInit == LocksIdle /\ ToolsIdle /\ WorkerIdle /\ DataIdle /\ CliIdle /\ HttpIdle
SpecLocks == LocksSpecInit /\ [][LocksNext]_vars

CliSpecInit == CliIdle /\ ToolsIdle /\ WorkerIdle /\ DataIdle /\ LocksIdle /\ HttpIdle
SpecCli == CliSpecInit /\ [][CliNext]_vars

\* The server of a proxy constructed with or without an inspector connection;
\* sessionId is drawn once.
HttpSpecInit ==
  /\ sessionId \in {"uuid-1", "uuid-2"}
  /\ httpUrl = <<>>
  /\ httpRes = [ended |-> FALSE, threw |-> FALSE, contentType |-> "none",
                body |-> [kind |-> "idle", id |-> "", url |-> ""]]
  /\ ProxyInit /\ HandlerIdle /\ CustomerIdle /\ PushIdle
  /\ WorkerIdle /\ DataIdle /\ LocksIdle /\ CliIdle
SpecHttp == HttpSpecInit /\ [][HttpNext]_vars

\* ------------------------------------------------------ CLI commands: claims
\* C15: formatDeployment returns the creation date as M/D/YYYY, followed by
\* ', ' and the first line only of the commit message; for a null commit
\* message it returns the date alone, with no separator after it.
C15_FormatDeployment ==
  fOut # <<>> =>
    LET date == <<IF fDeployment.createdAt.month = "03" THEN "3" ELSE "12", "/",
                  IF fDeployment.createdAt.day = "05" THEN "5" ELSE "22", "/",
                  fDeployment.createdAt.year>>
        message == fDeployment.commitMessage
        breaks == {i \in 1..Len(message) : message[i] = "\n"}
        line == IF breaks = {} THEN message
                ELSE SubSeq(message, 1,
                            (CHOOSE i \in breaks : \A j \in breaks : i <= j) - 1)
    IN /\ SubSeq(fOut, 1, 5) = date
       /\ message = NoMessage => fOut = date
       /\ message # NoMessage =>
            /\ fOut = date \o <<", ">> \o line
            /\ \A i \in 1..Len(fOut) : fOut[i] # "\n"

\* C15 witness: the deployment of the unit test (2023-03-22, 'Update
\* README.md', an empty line, a description) gives '3/22/2023, Update README.md'.
C15_Witness ==
  /\ fDeployment.createdAt = [year |-> "2023", month |-> "03", day |-> "22"]
  /\ fDeployment.commitMessage = <<"Update README.md", "\n", "why">>
  /\ fOut = <<"3", "/", "22", "/", "2023", ", ", "Update README.md">>

\* C16: runViteBuild calls checkLockfileStatus exactly when lockfileCheck is
\* true, which it is when the option is not passed; the check has completed
\* before the client build starts, and the client build has completed before
\* the server/SSR build starts.
C16_BuildOrder ==
  LET At(step, at) == {i \in 1..Len(bTrace) : bTrace[i] = [step |-> step, at |-> at]}
      Before(a, b) == \A i \in b : \E j \in a : j < i
  IN bResult # "idle" =>
       /\ (At("checkLockfileStatus", "start") # {}) <=> (bOptions.lockfileCheck # "false")
       /\ Cardinality(At("checkLockfileStatus", "start")) <= 1
       /\ bOptions.lockfileCheck # "false" =>
            Before(At("checkLockfileStatus", "end"), At("client build", "start"))
       /\ Before(At("client build", "end"), At("server build", "start"))

\* C16 witness: a build with the default lockfile check ran to its end, the
\* check, the client build and the server build having completed.
C16_Witness ==
  /\ bResult = "returned"
  /\ bOptions.lockfileCheck = Undef
  /\ \E i, j, k \in 1..Len(bTrace) :
       /\ i < j /\ j < k
       /\ bTrace[i] = [step |-> "checkLockfileStatus", at |-> "end"]
       /\ bTrace[j] = [step |-> "client build", at |-> "end"]
       /\ bTrace[k] = [step |-> "server build", at |-> "end"]


\* C17: getRecommendedProducts returns the recommended products followed by the
\* additional ones, a product whose id occurred earlier in that list being left
\* out, and the product whose id is productId being left out, and nothing else:
\* when productId is not among them, the whole deduplicated list.
C17_RecommendedWithoutOriginal ==
  (dPc = "done" /\ dOp = "getRecommendedProducts" /\ dResult.kind = "returned") =>
    LET merged == MergedProducts(dApi.body)
        numbered == [i \in 1..Len(merged) |-> [at |-> i, item |-> merged[i]]]
        kept == SelectSeq(numbered, LAMBDA n :
                  /\ n.item.id # dArg
                  /\ \A j \in 1..(n.at - 1) : merged[j].id # n.item.id)
    IN dResult.products = [i \in 1..Len(kept) |-> kept[i].item]

\* ----------------------------------------------------- refresh locks: claims
\* C14: every expiry check of a client is given the lock table that client
\* created, a client's lock table is created once and is never replaced, two
\* clients never have the same lock table, and a client has at most one token
\* refresh in flight at any time.
C14_OneRefreshPerClient ==
  /\ [](/\ \A k \in CallIds :
             kCalls[k].table # 0 => kCalls[k].table = kTableOf[kCalls[k].client]
        /\ \A c1, c2 \in ClientIds :
             (c1 # c2 /\ kTableOf[c1] # 0) => kTableOf[c1] # kTableOf[c2]
        /\ \A c \in ClientIds : Cardinality(InFlight(c)) <= 1)
  /\ [][\A c \in ClientIds : kTableOf[c] # 0 => kTableOf'[c] = kTableOf[c]]_vars

\* C14 witness: two calls of one client await the same refresh while a call of
\* another client awaits a refresh of its own.
C14_Witness ==
  \E k1, k2, k3 \in CallIds :
    /\ k1 # k2
    /\ kCalls[k1].pc = "await" /\ kCalls[k2].pc = "await" /\ kCalls[k3].pc = "await"
    /\ kCalls[k1].client = kCalls[k2].client
    /\ kCalls[k1].refresh = kCalls[k2].refresh
    /\ kCalls[k3].client # kCalls[k1].client
    /\ kCalls[k3].refresh # kCalls[k1].refresh


\* --------------------------------------------------- storefront data: claims
\* The Storefront API gave no data at all: what getStorefrontData returned is a
\* JSON object (or scalar) without a data value. A non-ok answer whose text is
\* not JSON, turned into {errors}, is such an object.
NoDataAtAll ==
  \/ dApi.body.kind \in {"object", "scalar"} /\ dApi.body.data # "value"
  \/ dApi.body.kind = "text" /\ ~dApi.ok

\* C12: getProductData and getCollection never return a null entity: data whose
\* product / collection is null makes them throw a Response with status 404,
\* and an answer with no data at all makes the invariant check throw an Error.
C12_NoNullEntity ==
  (dPc = "done" /\ dOp \in EntityLoaders) =>
    /\ dResult.kind = "returned" => dResult.entity # "null"
    /\ (dApi.body.data = "value" /\ dApi.body.entity = "null") =>
         dResult = DataThrown("Response 404")
    /\ NoDataAtAll =>
         dResult = DataThrown("Invariant failed: No data returned from Shopify API")

\* C12 witness: getCollection got a non-ok answer whose text is not JSON, and
\* threw the invariant error.
C12_Witness ==
  /\ dPc = "done"
  /\ dOp = "getCollection"
  /\ ~dApi.ok
  /\ dApi.body.kind = "text"
  /\ dResult.kind = "thrown"
  /\ dResult.error = "Invariant failed: No data returned from Shopify API"


\* ----------------------------------------------------- worker entry: claims
\* C11: the fetch handler of the worker entry never throws. When SESSION_SECRET
\* is unset, or the cache/session setup, the request handler or maybeRedirect
\* throws, it returns status 500 with body 'An unexpected error occurred';
\* otherwise a handler response with status 404 is replaced by the result of
\* maybeRedirect and any other handler response is returned as it is.
C11_FetchNeverThrows ==
  /\ wResult.kind # "thrown"
  /\ wPc = "done" =>
       /\ wResult.kind = "returned"
       /\ wResult.response =
            IF wThrew # "none" THEN UnexpectedError
            ELSE IF wHandled.status = 404 THEN wRedirected
            ELSE wHandled
  /\ (wPc = "done" /\ Falsy(wSecret)) => wThrew = "SESSION_SECRET"

\* C11 witness: the handler answered 404 and maybeRedirect threw; fetch
\* returned the 500 response.
C11_Witness ==
  /\ wPc = "done"
  /\ wHandled.status = 404
  /\ wThrew = "maybeRedirect"
  /\ wResult = WorkerReturned(UnexpectedError)

\* -------------------------------------------------- miniOxygenHandler: claims
\* C3: a request whose pathname is exactly /debug-network-server is answered by
\* the debugNetwork binding whatever its method: the only fetch made is the one
\* on debugNetwork, with the request itself, nothing is handed to waitUntil
\* (no logRequest), and the response returned is debugNetwork's.
C3_DebugNetworkRoute ==
  (hPc # "idle" /\ hRequest.path = DebugNetworkPath) =>
    /\ hCalls = <<Call("debugNetwork", hRequest.method, hRequest.path,
                       hRequest.headers)>>
    /\ hWaitUntil = <<>>
    /\ hPc \in {"debugNetwork", "done"}
    /\ (hPc = "done" => hReturned.from = "debugNetwork")

\* C3 witness: a POST to /debug-network-server was answered by debugNetwork.
C3_Witness ==
  /\ hPc = "done"
  /\ hRequest.method = "POST"
  /\ hRequest.path = DebugNetworkPath
  /\ hReturned = [from |-> "debugNetwork", status |-> 200]

\* C4: the assets binding is fetched only for a GET whose path starts with
\* /.well-known or whose last dot-separated segment, upper-cased, is a static
\* asset extension; the assets response is returned unless its status is 404,
\* and on 404 the original request goes to hydrogen, whose response is returned.
C4_AssetsRoute ==
  /\ \A i \in 1..Len(hCalls) :
        hCalls[i].binding = "assets" =>
          /\ hRequest.method = "GET"
          /\ \/ StartsWith(hRequest.path, WellKnownPrefix)
             \/ ToUpperCase(LastDotSegment(hRequest.path)) \in StaticAssetExtensions
  /\ (hPc = "done" /\ hAssetsStatus \notin {0, 404}) =>
        hReturned = [from |-> "assets", status |-> hAssetsStatus]
  /\ (hPc \in {"hydrogen", "done"} /\ hAssetsStatus = 404) =>
        /\ Len(hCalls) >= 2
        /\ hCalls[2] = Call("hydrogen", hRequest.method, hRequest.path,
                            RequestInitHeaders(hRequest))
        /\ (hPc = "done" => hReturned.from = "hydrogen")
  /\ hReturned # [from |-> "assets", status |-> 404]

\* C4 witness: GET /products.js missed in the assets server (404) and the
\* client got hydrogen's 200.
C4_Witness ==
  /\ hPc = "done"
  /\ hRequest.method = "GET"
  /\ hRequest.path = <<"/", "products", ".", "js">>
  /\ hAssetsStatus = 404
  /\ hCalls[1].binding = "assets"
  /\ hReturned = [from |-> "hydrogen", status |-> 200]

\* ------------------------------------------ customer account client: claims
\* The token fields of the session are what they were when the call started,
\* or unset: the call stored no token.
NoTokenStored ==
  /\ session.accessToken \in {cSession0.accessToken, Undef}
  /\ session.refreshToken \in {cSession0.refreshToken, Undef}
  /\ session.idToken \in {cSession0.idToken, Undef}

\* The requests of the call that went to the Customer Account API.
ApiFetches == SelectSeq(cFetches, LAMBDA f : f.url = "customerAccountApiUrl")

C6_AuthorizeBadCallback ==
  (/\ cOp = "authorize"
   /\ Falsy(cUrl.code) \/ Falsy(cUrl.state) \/ cUrl.state # cSession0.state) =>
    /\ cPc = "done"
    /\ session = UnsetSession
    /\ cResult = Thrown("BadRequest")
    /\ cFetches = <<>>

\* C6 witness: code and state are present but the state is not the session's,
\* and the session that held tokens is now unset.
C6_Witness ==
  /\ cOp = "authorize"
  /\ cPc = "done"
  /\ cUrl = [code |-> "c1", state |-> "s2"]
  /\ cSession0.state = "s1"
  /\ cSession0.accessToken = "at0"
  /\ session = UnsetSession

\* C7: when the Customer Account API answers query / mutate with 401 the
\* session is cleared and the auth status handler's result is thrown; on any
\* other non-ok status the session is as it was when the request was sent and
\* a GraphQL error is thrown; either way the API was requested exactly once.
C7_ApiErrorStatus ==
  (cOp \in {"query", "mutate"} /\ cPc = "done" /\ cResponse.status \notin {0, 200}) =>
    /\ Len(ApiFetches) = 1
    /\ IF cResponse.status = 401
       THEN session = UnsetSession /\ cResult = Thrown("authStatusHandler()")
       ELSE session = ApiFetches[1].session /\ cResult = Thrown("GraphQLError")

\* C7 witness: a query whose token was refreshed first got a 500 from the API;
\* the refreshed session is still there.
C7_Witness ==
  /\ cOp = "query"
  /\ cPc = "done"
  /\ cResponse.status = 500
  /\ cChecked = "returned"
  /\ session.accessToken = "at1"
  /\ cResult = Thrown("GraphQLError")

\* C8: with no accessToken or no expiresAt in the session, checkExpires is not
\* called and no request is sent; isLoggedIn returns false, getAccessToken
\* returns undefined, handleAuthStatus, query and mutate throw the auth status
\* handler's result. And isLoggedIn returns false when checkExpires throws.
C8_LoggedOut ==
  /\ (/\ cOp \in ClientMethods
      /\ Falsy(cSession0.accessToken) \/ Falsy(cSession0.expiresAt)) =>
       /\ cPc = "done"
       /\ cChecked = "no"
       /\ cFetches = <<>>
       /\ cResult = CASE cOp = "isLoggedIn" -> Returned("false")
                      [] cOp = "getAccessToken" -> Returned(Undef)
                      [] OTHER -> Thrown("authStatusHandler()")
  /\ (cOp = "isLoggedIn" /\ cChecked = "threw") => cResult = Returned("false")

\* C8 witness: a query over a session that holds a token but no expiry threw
\* the auth status handler's result.
C8_Witness ==
  /\ cOp = "query"
  /\ cSession0.accessToken = "at0"
  /\ cSession0.expiresAt = Undef
  /\ cResult = Thrown("authStatusHandler()")

\* ------------------------------------------------ customer-account push: claims
\* C9: every error raised while runCustomerAccountPush runs reaches the caller
\* as an AbortError whose next steps hold the 'Manually update application
\* setup' link, preceded by the 'Enable Public access for Hydrogen' link when a
\* user error says the Javascript origin is not allowed.
C9_EveryErrorIsAbortError ==
  (pPc = "done" /\ pResult.kind = "thrown") =>
    /\ pResult.error = "AbortError"
    /\ pResult.nextSteps =
         IF \E i \in 1..Len(pReplaced.userErrors) :
              pReplaced.userErrors[i] = OriginNotAllowed
         THEN <<EnablePublicAccess, ManualUpdate>>
         ELSE <<ManualUpdate>>

\* C10: the local customerAccountConfig is written only after
\* replaceCustomerApplicationUrls returned success with no user errors, and
\* then holds the URLs that were added; a run that throws leaves it as it was;
\* and the patterns a run asks to remove are the URLs stored by the latest
\* run that succeeded.
C10_ConfigFollowsRemote ==
  /\ localConfig.customerAccountConfig # pConfig0 =>
       /\ pReplaced.returned /\ pReplaced.success /\ pReplaced.userErrors = <<>>
       /\ localConfig.customerAccountConfig = pRemoteCall.add
  /\ pResult.kind = "thrown" => localConfig.customerAccountConfig = pConfig0
  /\ pPc \in {"replace", "setConfig"} =>
       /\ pRemoteCall.called
       /\ pRemoteCall.removeRegex = pLastPushed
  /\ localConfig.customerAccountConfig = pLastPushed

\* C10 witness: a second run succeeded; it removed the URLs the first run had
\* stored, which differ from the ones it added, and stored its own.
C10_Witness ==
  /\ nPushes = 2
  /\ pPc = "done"
  /\ pResult = PushReturned
  /\ pRemoteCall.called
  /\ pRemoteCall.removeRegex = pConfig0
  /\ pConfig0 # NoAccountConfig
  /\ pRemoteCall.add # pRemoteCall.removeRegex
  /\ localConfig.customerAccountConfig = pRemoteCall.add

\* C13: when no relative logout URI is supplied, the run adds no logout URI to
\* the customer application and saves none in the local config; the redirect
\* URI that is added is <dev-origin>/account/authorize when none is supplied.
C13_LogoutDefaultsToNothing ==
  (pRemoteCall.called /\ Falsy(pInput.logoutUriRelativeUrl)) =>
    /\ FalsyUrl(pRemoteCall.add.logoutUri)
    /\ (pPc = "done" /\ pResult = PushReturned) =>
         FalsyUrl(localConfig.customerAccountConfig.logoutUri)
    /\ pInput.redirectUriRelativeUrl = "/account/authorize" =>
         pRemoteCall.add.redirectUri =
           MakeUrl("/account/authorize", pInput.devOrigin)

\* ---------------------------------------------------- inspector proxy: claims
\* The ids of the inspector events written to debugger sockets, in order.
DeliveredIds ==
  LET toDebugger == SelectSeq(wire, LAMBDA s : /\ s.to = "debugger"
                                               /\ s.written
                                               /\ s.data # ReloadWarning)
  IN [i \in 1..Len(toDebugger) |-> toDebugger[i].data.id]

BufferedIds == [i \in 1..Len(messageBuffer) |-> messageBuffer[i].id]

\* This step is the 'connection' handler running for a new socket.
ConnectionStep == nextConn' = nextConn + 1

\* C1: at most one debugger socket carries the message listener at any time,
\* and a connection that arrives while another client is still in the server's
\* client set is closed with code 1013 and leaves debuggerWs, its message
\* listener, isDevToolsInBrowser and the message buffer as they were.
C1_SingleDebugger ==
  /\ [](Cardinality(msgListeners) <= 1 /\ msgListeners \subseteq {debuggerWs})
  /\ [][(ConnectionStep /\ clients # {}) =>
          /\ readyState'[nextConn'] = "closing"
          /\ closeCode'[nextConn'] = 1013
          /\ UNCHANGED <<debuggerWs, msgListeners, isDevToolsInBrowser,
                         messageBuffer>>]_vars

\* C1 witness: a socket was refused with 1013 while another one is the attached
\* debugger and messages are being delivered to it.
C1_Witness ==
  \E ws \in ConnIds :
    /\ closeCode[ws] = 1013
    /\ debuggerWs \notin {NoWs, ws}
    /\ msgListeners = {debuggerWs}

\* C2: inspector events that find no debugger are appended to the buffer; an
\* accepted connection is sent the whole buffer, in arrival order, and leaves
\* the buffer empty; at every moment the events written to debuggers followed
\* by the buffered ones are exactly the events that arrived, each once, in
\* order (none dropped, none delivered twice).
C2_BufferedDelivery ==
  /\ [](/\ DeliveredIds \o BufferedIds = [i \in 1..nMsgs |-> i]
        /\ (messageBuffer # <<>> => debuggerWs = NoWs))
  /\ [][/\ ((nMsgs' = nMsgs + 1 /\ debuggerWs = NoWs) =>
              (/\ Len(messageBuffer') = Len(messageBuffer) + 1
               /\ messageBuffer'[Len(messageBuffer')].id = nMsgs'
               /\ SubSeq(messageBuffer', 1, Len(messageBuffer)) = messageBuffer))
         /\ ((ConnectionStep /\ debuggerWs' = nextConn') =>
              (/\ messageBuffer' = <<>>
               /\ LET new == SubSeq(wire', Len(wire) + 1, Len(wire'))
                      sent == SelectSeq(new, LAMBDA s : s.to = "debugger")
                  IN /\ [i \in 1..Len(sent) |-> sent[i].data.id] = BufferedIds
                     /\ \A i \in 1..Len(sent) :
                          sent[i].ws = nextConn' /\ sent[i].written))]_vars

\* What a step appended to the log of sends.
NewlySent == SubSeq(wire', Len(wire) + 1, Len(wire'))

\* C18: a connection accepted while an inspector is connected makes the proxy
\* send Debugger.disable (id 100000000) to that inspector first: the buffered
\* events flushed to the new debugger come after it, and no message of the new
\* debugger, which has no listener before this step, is forwarded before it. A
\* rejected connection sends nothing.
C18_DisableFirst ==
  [][ConnectionStep =>
       /\ nextConn' \notin msgListeners
       /\ (debuggerWs' = nextConn' /\ inspectorWs # NoWs) =>
            /\ NewlySent # <<>>
            /\ NewlySent[1] = Sent("inspector", inspectorWs, DebuggerDisable, TRUE)
            /\ DebuggerDisable.id = 100000000
            /\ \A i \in 2..Len(NewlySent) :
                 NewlySent[i].to = "debugger" /\ NewlySent[i].ws = nextConn'
            /\ Len(NewlySent) = 1 + Len(messageBuffer)
       /\ (debuggerWs' = nextConn' /\ inspectorWs = NoWs) =>
            \A i \in 1..Len(NewlySent) : NewlySent[i].to = "debugger"
       /\ debuggerWs' # nextConn' => wire' = wire]_vars

\* C18 witness: a debugger has just been accepted while an inspector is
\* connected; Debugger.disable went to the inspector and the buffered events
\* followed it to the debugger.
C18_Witness ==
  /\ inspectorWs # NoWs
  /\ debuggerWs # NoWs
  /\ Len(flushed) >= 2
  /\ Len(wire) >= 3
  /\ wire[Len(wire) - 2] = Sent("inspector", inspectorWs, DebuggerDisable, TRUE)
  /\ wire[Len(wire) - 1].to = "debugger" /\ wire[Len(wire) - 1].ws = debuggerWs
  /\ wire[Len(wire)].to = "debugger" /\ wire[Len(wire)].ws = debuggerWs

\* A step of updateInspectorConnection, and a step in which a debugger socket
\* emits 'message'.
UpdateStep == nextInspector' = nextInspector + 1

CommandStep == nCmds' = nCmds + 1

\* The number of reload warnings written to a debugger socket.
WarningsWritten(w, ws) ==
  Cardinality({ i \in 1..Len(w) : w[i] = Sent("debugger", ws, ReloadWarning, TRUE) })

\* C19: updateInspectorConnection(c) makes c.ws the inspector. In that step a
\* currently attached debugger is handed the 'Source code changed' warning
\* once and is closing with code 1001 afterwards, having been written exactly
\* one such warning in all; with no debugger attached nothing is sent. The
\* message buffer is unchanged either way. Every later message of a debugger
\* is forwarded to the then current inspector socket alone, and is dropped,
\* not buffered, when there is none.
C19_UpdateInspectorConnection ==
  [][ /\ UpdateStep =>
           /\ inspectorWs' \in {NoWs, nextInspector'}
           /\ messageBuffer' = messageBuffer
           /\ debuggerWs' = debuggerWs
           /\ IF debuggerWs # NoWs
              THEN /\ NewlySent = << Sent("debugger", debuggerWs, ReloadWarning,
                                          readyState[debuggerWs] = "open") >>
                   /\ readyState'[debuggerWs] = "closing"
                   /\ closeCode'[debuggerWs] = 1001
                   /\ WarningsWritten(wire', debuggerWs) = 1
              ELSE /\ wire' = wire
                   /\ readyState' = readyState
                   /\ closeCode' = closeCode
      /\ CommandStep =>
           /\ messageBuffer' = messageBuffer
           /\ IF inspectorWs # NoWs
              THEN NewlySent = << Sent("inspector", inspectorWs,
                                      DebuggerCommand(nCmds'), TRUE) >>
              ELSE wire' = wire
    ]_vars

\* An attached debugger was warned and closed with 1001 by an update that
\* installed a new inspector socket, and a later debugger message went to that
\* socket.
C19_Witness ==
  /\ inspectorWs # NoWs
  /\ inspectorWs = nextInspector
  /\ \E i, j \in 1..Len(wire) :
       /\ i < j
       /\ wire[i].to = "debugger"
       /\ wire[i].data = ReloadWarning
       /\ wire[i].written
       /\ closeCode[wire[i].ws] = 1001
       /\ wire[j] = Sent("inspector", inspectorWs, wire[j].data, TRUE)
       /\ wire[j].data.method = "Debugger.command"

\* C20: the sourceMapURL of a Debugger.scriptParsed message is rewritten only
\* in messages delivered to a browser DevTools debugger: whatever a step hands
\* to a debugger that is not browser DevTools, buffered messages flushed at
\* its connection included, carries no rewritten URL; whatever a step hands to
\* a browser DevTools debugger carries no 'index.js.map' URL in a
\* Debugger.scriptParsed message.
C20_RewriteOnlyForBrowser ==
  [][ \A i \in 1..Len(NewlySent) :
        NewlySent[i].to = "debugger" =>
          IF isDevToolsInBrowser'
          THEN ~ /\ NewlySent[i].data.method = "Debugger.scriptParsed"
                 /\ NewlySent[i].data.sourceMapURL = "index.js.map"
          ELSE NewlySent[i].data.sourceMapURL # ProxySourceMapURL
    ]_vars

\* The connection accepted last: every accepted socket gets the 'close'
\* listener, and sockets are numbered in order of arrival.
LastAccepted ==
  IF closeListeners = {} THEN NoWs
  ELSE CHOOSE m \in closeListeners : \A x \in closeListeners : x <= m

\* C21: debuggerWs is either undefined or the most recently accepted
\* connection, which has not emitted 'close' yet, and it is the one socket that
\* carries the sendMessageToInspector listener; no socket carries the listener
\* while debuggerWs is undefined. The 'close' event of a socket other than the
\* attached debugger leaves debuggerWs and its listener as they are.
C21_AttachedDebugger ==
  /\ [](IF debuggerWs = NoWs
        THEN msgListeners = {}
        ELSE /\ debuggerWs = LastAccepted
             /\ debuggerWs \in clients
             /\ readyState[debuggerWs] \in {"open", "closing"}
             /\ msgListeners = {debuggerWs})
  /\ [][\A ws \in ConnIds :
          (ws \in clients /\ ws \notin clients' /\ ws # debuggerWs) =>
             UNCHANGED <<debuggerWs, msgListeners>>]_vars

\* A debugger is attached after an earlier attached socket and a later
\* rejected socket have both emitted 'close'.
C21_Witness ==
  /\ debuggerWs # NoWs
  /\ msgListeners = {debuggerWs}
  /\ \E p, r \in ConnIds :
       /\ p < debuggerWs /\ p \in closeListeners /\ readyState[p] = "closed"
       /\ r > debuggerWs /\ closeCode[r] = 1013 /\ readyState[r] = "closed"

\* C22: a connection that arrives while debuggerWs is undefined is accepted
\* and becomes the attached debugger; a connection is closed with 1013 only
\* when it arrives while a debugger is attached.
C22_AcceptedWhenNoneAttached ==
  [][ConnectionStep =>
       /\ debuggerWs = NoWs =>
            /\ debuggerWs' = nextConn'
            /\ readyState'[nextConn'] = "open"
       /\ closeCode'[nextConn'] = 1013 => debuggerWs # NoWs
    ]_vars

\* The url is the given path, alone or followed by a query string.
IsPathOf(path, url) ==
  /\ Len(url) >= Len(path)
  /\ SubSeq(url, 1, Len(path)) = path
  /\ Len(url) > Len(path) => url[Len(path) + 1] = "?"

\* The endpoints match whatever the query string, and the target of /json and
\* /json/list carries the sessionId, which never changes.
EndpointsIgnoreQuery ==
  /\ [](/\ IsPathOf(<<"/json", "/version">>, httpUrl) => httpRes.body.kind = "version"
        /\ (IsPathOf(<<"/json">>, httpUrl) \/ IsPathOf(<<"/json", "/list">>, httpUrl)) =>
             (httpRes.body.kind = "targets" /\ httpRes.body.id = sessionId)
        /\ IsPathOf(<<"/__index.js.map">>, httpUrl) =>
             (httpRes.body.kind = "sourcemap" \/ httpRes.threw))
  /\ [][sessionId' = sessionId]_vars

\* C23: every request the server has handled was ended with a response,
\* whatever its path; the query string is ignored when matching the four
\* endpoints, and /json and /json/list answer with the one target whose id is
\* the sessionId of the proxy.
C23_EveryRequestEnded ==
  /\ [](httpRes.body.kind # "idle" => httpRes.ended)
  /\ EndpointsIgnoreQuery

\* C24: a request that reached the hydrogen binding has, once hydrogen's
\* response is there, exactly one logRequest fetch handed to waitUntil, made
\* after the hydrogen fetch, with that response's status in h2-response-status
\* and the request-id that went to hydrogen; before the response, and for a
\* request answered by the assets binding, none is scheduled. In the headers
\* sent to hydrogen a header of the client wins over the Oxygen default and
\* over the generated request-id.
C24_OneLogRequest ==
  LET toHydrogen == { i \in 1..Len(hCalls) : hCalls[i].binding = "hydrogen" }
      toLog == { i \in 1..Len(hCalls) : hCalls[i].binding = "logRequest" }
  IN
  /\ Cardinality(toHydrogen) <= 1
  /\ Len(hWaitUntil) = Cardinality(toLog)
  /\ hReturned.from = "hydrogen" =>
       /\ toHydrogen = {Len(hCalls) - 1}
       /\ toLog = {Len(hCalls)}
       /\ Len(hWaitUntil) = 1
       /\ hWaitUntil[1].responseStatus = hReturned.status
       /\ hWaitUntil[1].headers["h2-response-status"] =
            (CASE hReturned.status = 200 -> "200" [] hReturned.status = 404 -> "404"
               [] hReturned.status = 500 -> "500")
       /\ hWaitUntil[1].headers["request-id"] =
            hCalls[Len(hCalls) - 1].headers["request-id"]
       /\ hWaitUntil[1].headers["oxygen-buyer-ip"] =
            hCalls[Len(hCalls) - 1].headers["oxygen-buyer-ip"]
  /\ hReturned.from # "hydrogen" => hWaitUntil = <<>>
  /\ \A i \in toHydrogen :
       /\ hCalls[i].headers["request-id"] =
            (IF hRequest.headers["request-id"] # "absent"
             THEN hRequest.headers["request-id"] ELSE "generated-uuid")
       /\ hCalls[i].headers["oxygen-buyer-ip"] =
            (IF hRequest.headers["oxygen-buyer-ip"] # "absent"
             THEN hRequest.headers["oxygen-buyer-ip"] ELSE "127.0.0.1")

\* A client that sent its own request-id and h2-response-status, but no
\* oxygen-buyer-ip, missed in the assets server and was answered by hydrogen
\* with a 500, which is what the scheduled logRequest carries.
C24_Witness ==
  /\ hPc = "done"
  /\ hAssetsStatus = 404
  /\ hReturned = [from |-> "hydrogen", status |-> 500]
  /\ hRequest.headers["request-id"] = "client"
  /\ hRequest.headers["h2-response-status"] = "client"
  /\ hRequest.headers["oxygen-buyer-ip"] = "absent"
  /\ Len(hWaitUntil) = 1
  /\ hWaitUntil[1].headers["request-id"] = "client"
  /\ hWaitUntil[1].headers["oxygen-buyer-ip"] = "127.0.0.1"
  /\ hWaitUntil[1].headers["h2-response-status"] = "500"

\* runInit took an existing non-empty directory away only with force or after
\* the answer 'Yes, delete the files'; after the answer no it returned with
\* the directory as it was; it rendered no success message when
\* transpileProject failed.
DeletesOnlyWithConsent ==
  /\ (iDir0 = "nonempty" /\ iDir # "nonempty") =>
        (iOptions.force \/ iAnswer = "true")
  /\ iAnswer = "false" =>
        /\ iPc = "returned"
        /\ iDir = iDir0
        /\ iError = "none"
  /\ (iPc = "rmdir" \/ iError \in {"transpile", "rmdir"}) =>
        \A i \in 1..Len(iOut) : iOut[i] # "renderSuccess"

\* C25: runInit deletes an existing non-empty destination directory only with
\* force or after the answer yes, and after the answer no returns without
\* removing or creating anything; when transpileProject fails, runInit ends by
\* throwing that error, after the attempt to remove the project directory,
\* without a success message.
C25_InitKeepsFilesAndRethrows ==
  /\ DeletesOnlyWithConsent
  /\ (iPc = "thrown" /\ iError \notin {"remove", "createApp", "install"}) =>
        iError = "transpile"

====
